---- MODULE Spec2Model ----
(***************************************************************************)
(* Markdown post-processing scripts of the documentation toolkit.          *)
(*                                                                         *)
(* Every script is a sequential program over one text file.  A text is a   *)
(* sequence of one-character strings, a list of lines is a sequence of     *)
(* such texts.  Each script has one record variable holding its local      *)
(* variables (under the names the source gives them) and a program         *)
(* counter pc; a script that is not running is "off".  Each script has its *)
(* own specification; its Init draws the content of the input file from a  *)
(* bounded set of texts.                                                   *)
(***************************************************************************)
EXTENDS Integers, Sequences, FiniteSets, TLC

VARIABLES rbt, ph, anl, org, cif, aps, rcp, rps, rad, gd, dia, anm

vars == <<rbt, ph, anl, org, cif, aps, rcp, rps, rad, gd, dia, anm>>

Off == [pc |-> "off"]

\* The variables of the scripts other than the one that runs, and their
\* value while it runs.
Others_rbt == <<ph, anl, org, cif, aps, rcp, rps, rad, gd, dia, anm>>

Others_ph == <<rbt, anl, org, cif, aps, rcp, rps, rad, gd, dia, anm>>

Others_anl == <<rbt, ph, org, cif, aps, rcp, rps, rad, gd, dia, anm>>

Others_org == <<rbt, ph, anl, cif, aps, rcp, rps, rad, gd, dia, anm>>

Others_cif == <<rbt, ph, anl, org, aps, rcp, rps, rad, gd, dia, anm>>

Others_aps == <<rbt, ph, anl, org, cif, rcp, rps, rad, gd, dia, anm>>

Others_rcp == <<rbt, ph, anl, org, cif, aps, rps, rad, gd, dia, anm>>

Others_rps == <<rbt, ph, anl, org, cif, aps, rcp, rad, gd, dia, anm>>

Others_rad == <<rbt, ph, anl, org, cif, aps, rcp, rps, gd, dia, anm>>

Others_gd == <<rbt, ph, anl, org, cif, aps, rcp, rps, rad, dia, anm>>

Others_dia == <<rbt, ph, anl, org, cif, aps, rcp, rps, rad, gd, anm>>

Others_anm == <<rbt, ph, anl, org, cif, aps, rcp, rps, rad, gd, dia>>

OthersOff_rbt ==
    /\ ph = Off
    /\ anl = Off
    /\ org = Off
    /\ cif = Off
    /\ aps = Off
    /\ rcp = Off
    /\ rps = Off
    /\ rad = Off
    /\ gd = Off
    /\ dia = Off
    /\ anm = Off

OthersOff_ph ==
    /\ rbt = Off
    /\ anl = Off
    /\ org = Off
    /\ cif = Off
    /\ aps = Off
    /\ rcp = Off
    /\ rps = Off
    /\ rad = Off
    /\ gd = Off
    /\ dia = Off
    /\ anm = Off

OthersOff_anl ==
    /\ rbt = Off
    /\ ph = Off
    /\ org = Off
    /\ cif = Off
    /\ aps = Off
    /\ rcp = Off
    /\ rps = Off
    /\ rad = Off
    /\ gd = Off
    /\ dia = Off
    /\ anm = Off

OthersOff_org ==
    /\ rbt = Off
    /\ ph = Off
    /\ anl = Off
    /\ cif = Off
    /\ aps = Off
    /\ rcp = Off
    /\ rps = Off
    /\ rad = Off
    /\ gd = Off
    /\ dia = Off
    /\ anm = Off

OthersOff_cif ==
    /\ rbt = Off
    /\ ph = Off
    /\ anl = Off
    /\ org = Off
    /\ aps = Off
    /\ rcp = Off
    /\ rps = Off
    /\ rad = Off
    /\ gd = Off
    /\ dia = Off
    /\ anm = Off

OthersOff_aps ==
    /\ rbt = Off
    /\ ph = Off
    /\ anl = Off
    /\ org = Off
    /\ cif = Off
    /\ rcp = Off
    /\ rps = Off
    /\ rad = Off
    /\ gd = Off
    /\ dia = Off
    /\ anm = Off

OthersOff_rcp ==
    /\ rbt = Off
    /\ ph = Off
    /\ anl = Off
    /\ org = Off
    /\ cif = Off
    /\ aps = Off
    /\ rps = Off
    /\ rad = Off
    /\ gd = Off
    /\ dia = Off
    /\ anm = Off

OthersOff_rps ==
    /\ rbt = Off
    /\ ph = Off
    /\ anl = Off
    /\ org = Off
    /\ cif = Off
    /\ aps = Off
    /\ rcp = Off
    /\ rad = Off
    /\ gd = Off
    /\ dia = Off
    /\ anm = Off

OthersOff_rad ==
    /\ rbt = Off
    /\ ph = Off
    /\ anl = Off
    /\ org = Off
    /\ cif = Off
    /\ aps = Off
    /\ rcp = Off
    /\ rps = Off
    /\ gd = Off
    /\ dia = Off
    /\ anm = Off

OthersOff_gd ==
    /\ rbt = Off
    /\ ph = Off
    /\ anl = Off
    /\ org = Off
    /\ cif = Off
    /\ aps = Off
    /\ rcp = Off
    /\ rps = Off
    /\ rad = Off
    /\ dia = Off
    /\ anm = Off

OthersOff_dia ==
    /\ rbt = Off
    /\ ph = Off
    /\ anl = Off
    /\ org = Off
    /\ cif = Off
    /\ aps = Off
    /\ rcp = Off
    /\ rps = Off
    /\ rad = Off
    /\ gd = Off
    /\ anm = Off

OthersOff_anm ==
    /\ rbt = Off
    /\ ph = Off
    /\ anl = Off
    /\ org = Off
    /\ cif = Off
    /\ aps = Off
    /\ rcp = Off
    /\ rps = Off
    /\ rad = Off
    /\ gd = Off
    /\ dia = Off

(***************************************************************************)
(* Texts.                                                                  *)
(***************************************************************************)

\* Python's \s on the characters the models use.
IsSpace(c) == c \in {" ", "\t", "\n"}

UpperLetters ==
    <<"A", "B", "C", "D", "E", "F", "G", "H", "I", "J", "K", "L", "M",
      "N", "O", "P", "Q", "R", "S", "T", "U", "V", "W", "X", "Y", "Z">>

LowerLetters ==
    <<"a", "b", "c", "d", "e", "f", "g", "h", "i", "j", "k", "l", "m",
      "n", "o", "p", "q", "r", "s", "t", "u", "v", "w", "x", "y", "z">>

\* str.lower and the case folding of re.IGNORECASE, on one character.
Lower(c) ==
    IF \E k \in 1..26 : UpperLetters[k] = c
    THEN LowerLetters[CHOOSE k \in 1..26 : UpperLetters[k] = c]
    ELSE c

\* str.upper, on one character.
UpperChar(c) ==
    IF \E k \in 1..26 : LowerLetters[k] = c
    THEN UpperLetters[CHOOSE k \in 1..26 : LowerLetters[k] = c]
    ELSE c

RECURSIVE Flatten(_)
\* The concatenation of a sequence of texts.
Flatten(ss) == IF ss = <<>> THEN <<>> ELSE Head(ss) \o Flatten(Tail(ss))

\* All sequences over S of length at most n.
SeqUpTo(S, n) == UNION {[1..k -> S] : k \in 0..n}

\* The backquote character (the module's syntax has no string for it).
BQ == "backquote"

\* The three backquotes of a code fence.
Fence == <<BQ, BQ, BQ>>

\* t[p..] has prefix w.
HasPrefixAt(t, p, w) ==
    /\ p + Len(w) - 1 <= Len(t)
    /\ \A k \in 1..Len(w) : t[p + k - 1] = w[k]

RECURSIVE SkipSpace(_, _)
\* The first position at or after p that holds no whitespace (a greedy \s*).
SkipSpace(t, p) ==
    IF p <= Len(t) /\ IsSpace(t[p]) THEN SkipSpace(t, p + 1) ELSE p

(***************************************************************************)
(* How-X-works/replace_br_tags.py                                          *)
(***************************************************************************)

\* The number of tokens of an input text.
MaxTokens == 4

BrTokens ==
    { <<"<", "b", "r">>, <<"<", "B", "R">>, <<"<">>, <<"/">>, <<" ">>,
      <<"\n">>, <<">">>, <<"x">> }

BrInputs == {Flatten(s) : s \in SeqUpTo(BrTokens, MaxTokens)}

\* r'<br>' with re.IGNORECASE matches at p.
LiteralBrAt(t, p) ==
    /\ p + 3 <= Len(t)
    /\ t[p] = "<" /\ Lower(t[p + 1]) = "b" /\ Lower(t[p + 2]) = "r"
    /\ t[p + 3] = ">"

\* len(re.findall(r'<br>', t, re.IGNORECASE)): the matches cannot overlap.
CountBr(t) == Cardinality({p \in 1..Len(t) : LiteralBrAt(t, p)})

\* A mutant of BrTagEnd: the pattern compiled without re.IGNORECASE.
BrTagEndCaseSensitive(t, p) ==
    IF ~(p + 2 <= Len(t) /\ t[p] = "<" /\ t[p + 1] = "b" /\ t[p + 2] = "r")
    THEN 0
    ELSE LET q2 == SkipSpace(t, p + 3)
             q3 == IF q2 <= Len(t) /\ t[q2] = "/" THEN q2 + 1 ELSE q2
             q4 == SkipSpace(t, q3)
         IN  IF q4 <= Len(t) /\ t[q4] = ">" THEN q4 + 1 ELSE 0

\* r'<br\s*/?\s*>' with re.IGNORECASE: the position after the match that
\* starts at p, or 0 if none starts there.  Whitespace, '/' and '>' are
\* disjoint, so the greedy match is the only one.
BrTagEnd(t, p) ==
    IF ~(p + 2 <= Len(t) /\ t[p] = "<" /\ Lower(t[p + 1]) = "b"
                         /\ Lower(t[p + 2]) = "r")
    THEN 0
    ELSE LET q2 == SkipSpace(t, p + 3)
             q3 == IF q2 <= Len(t) /\ t[q2] = "/" THEN q2 + 1 ELSE q2
             q4 == SkipSpace(t, q3)
         IN  IF q4 <= Len(t) /\ t[q4] = ">" THEN q4 + 1 ELSE 0

RECURSIVE SubBr(_, _)
\* re.sub(r'<br\s*/?\s*>', '\n', t, flags=re.IGNORECASE) from position p on:
\* one left-to-right pass over the non-overlapping matches.
SubBr(t, p) ==
    IF p > Len(t) THEN <<>>
    ELSE IF BrTagEnd(t, p) # 0 THEN <<"\n">> \o SubBr(t, BrTagEnd(t, p))
    ELSE <<t[p]>> \o SubBr(t, p + 1)

NoFile == <<"(no file)">>

InitBr ==
    /\ rbt \in {[pc |-> "read", master_output |-> t, content |-> <<>>,
                 br_count |-> 0, remaining_br |-> 0,
                 master_output_no_br |-> NoFile] : t \in BrInputs}
    /\ OthersOff_rbt

BrRead ==
    /\ rbt.pc = "read"
    /\ rbt' = [rbt EXCEPT !.pc = "count", !.content = rbt.master_output]
    /\ UNCHANGED Others_rbt

BrCount ==
    /\ rbt.pc = "count"
    /\ rbt' = [rbt EXCEPT !.pc = "sub", !.br_count = CountBr(rbt.content)]
    /\ UNCHANGED Others_rbt

BrSub ==
    /\ rbt.pc = "sub"
    /\ rbt' = [rbt EXCEPT !.pc = "verify", !.content = SubBr(rbt.content, 1)]
    /\ UNCHANGED Others_rbt

BrVerify ==
    /\ rbt.pc = "verify"
    /\ rbt' = [rbt EXCEPT !.pc = "write",
                          !.remaining_br = CountBr(rbt.content)]
    /\ UNCHANGED Others_rbt

BrWrite ==
    /\ rbt.pc = "write"
    /\ rbt' = [rbt EXCEPT !.pc = "done", !.master_output_no_br = rbt.content]
    /\ UNCHANGED Others_rbt

NextBr == BrRead \/ BrCount \/ BrSub \/ BrVerify \/ BrWrite

SpecBr == InitBr /\ [][NextBr]_vars

\* A variation of the br tag begins at p: '<br', optional whitespace,
\* optional '/', optional whitespace, '>', in any letter case.
RECURSIVE SpacesThenClose(_, _, _)
SpacesThenClose(t, p, slash) ==
    /\ p <= Len(t)
    /\ \/ t[p] = ">"
       \/ IsSpace(t[p]) /\ SpacesThenClose(t, p + 1, slash)
       \/ slash /\ t[p] = "/" /\ SpacesThenClose(t, p + 1, FALSE)

IsBrVariationAt(t, p) ==
    /\ p + 2 <= Len(t)
    /\ t[p] = "<" /\ t[p + 1] \in {"b", "B"} /\ t[p + 2] \in {"r", "R"}
    /\ SpacesThenClose(t, p + 3, TRUE)

\* C1: the text written to master_output_no_br.md holds no '<br>' in any
\* letter case, and the reported count of remaining tags is 0.
C1_NoLiteralBrLeft ==
    /\ rbt.pc \in {"write", "done"} => rbt.remaining_br = 0
    /\ rbt.pc = "done" =>
          /\ rbt.master_output_no_br # NoFile
          /\ \A p \in 1..Len(rbt.master_output_no_br) :
                ~(/\ p + 3 <= Len(rbt.master_output_no_br)
                  /\ rbt.master_output_no_br[p] = "<"
                  /\ rbt.master_output_no_br[p + 1] \in {"b", "B"}
                  /\ rbt.master_output_no_br[p + 2] \in {"r", "R"}
                  /\ rbt.master_output_no_br[p + 3] = ">")

\* The script has run on an input that holds '<br>' tags in both cases.
C1_Witness ==
    /\ rbt.pc = "done"
    /\ rbt.br_count >= 2
    /\ \E p \in 1..Len(rbt.master_output) :
          HasPrefixAt(rbt.master_output, p, <<"<", "B", "R", ">">>)
    /\ \E p \in 1..Len(rbt.master_output) :
          HasPrefixAt(rbt.master_output, p, <<"<", "b", "r", ">">>)

\* C2: after the single substitution pass the output holds no variation of
\* the br tag.
C2_NoBrVariationLeft ==
    rbt.pc = "done" =>
        \A p \in 1..Len(rbt.master_output_no_br) :
            ~IsBrVariationAt(rbt.master_output_no_br, p)

(***************************************************************************)
(* How-X-works/promote_headings.py                                         *)
(***************************************************************************)

\* The number of characters of master_output.md.
MaxChars == 6

PhChars == {"#", " ", "a", "\n"}

PhInputs == SeqUpTo(PhChars, MaxChars)

RECURSIVE LineEnd(_, _)
\* The position of the first "\n" at or after p, or Len(t) if there is none.
LineEnd(t, p) ==
    IF p >= Len(t) \/ t[p] = "\n" THEN p ELSE LineEnd(t, p + 1)

RECURSIVE ReadLines(_)
\* f.readlines(): the lines of t, each with its line ending.
ReadLines(t) ==
    IF t = <<>> THEN <<>>
    ELSE <<SubSeq(t, 1, LineEnd(t, 1))>>
         \o ReadLines(SubSeq(t, LineEnd(t, 1) + 1, Len(t)))

RECURSIVE CountHashes(_, _)
\* The length of the run of '#' that starts at p (the greedy (#+)).
CountHashes(line, p) ==
    IF p <= Len(line) /\ line[p] = "#" THEN 1 + CountHashes(line, p + 1) ELSE 0

\* re.match(r'^(#+)\s', line): len(group(1)), or 0 if there is no match.
HeadingMatch(line) ==
    LET n == CountHashes(line, 1)
    IN  IF n >= 1 /\ n + 1 <= Len(line) /\ IsSpace(line[n + 1]) THEN n ELSE 0

\* A mutant of PromoteLine: the level test is len(hashes) >= 1.
PromoteLineLevelOne(line) ==
    IF line # <<>> /\ line[1] = "#"
    THEN IF HeadingMatch(line) # 0
         THEN IF HeadingMatch(line) >= 1 THEN Tail(line) ELSE line
         ELSE line
    ELSE line

\* The body of the loop: what is appended to new_lines for line.
PromoteLine(line) ==
    IF line # <<>> /\ line[1] = "#"
    THEN IF HeadingMatch(line) # 0
         THEN IF HeadingMatch(line) > 1 THEN Tail(line) ELSE line
         ELSE line
    ELSE line

InitPh ==
    /\ ph \in {[pc |-> "read", master_output |-> t, lines |-> <<>>,
                new_lines |-> <<>>] : t \in PhInputs}
    /\ OthersOff_ph

PhRead ==
    /\ ph.pc = "read"
    /\ ph' = [ph EXCEPT !.pc = "loop", !.lines = ReadLines(ph.master_output)]
    /\ UNCHANGED Others_ph

\* One iteration of the loop over lines.
PhLine ==
    /\ ph.pc = "loop"
    /\ Len(ph.new_lines) < Len(ph.lines)
    /\ ph' = [ph EXCEPT !.new_lines =
                  Append(@, PromoteLine(ph.lines[Len(ph.new_lines) + 1]))]
    /\ UNCHANGED Others_ph

PhWrite ==
    /\ ph.pc = "loop"
    /\ Len(ph.new_lines) = Len(ph.lines)
    /\ ph' = [ph EXCEPT !.pc = "done", !.master_output = Flatten(ph.new_lines)]
    /\ UNCHANGED Others_ph

NextPh == PhRead \/ PhLine \/ PhWrite

SpecPh == InitPh /\ [][NextPh]_vars

\* n copies of '#'.
Hashes(n) == [k \in 1..n |-> "#"]

\* The line the docstring asks for: a heading of level n >= 2 loses one '#'.
Promoted(line) ==
    LET n == CHOOSE m \in 0..Len(line) :
                 /\ \A k \in 1..m : line[k] = "#"
                 /\ m < Len(line) => line[m + 1] # "#"
    IN  IF n >= 2 /\ n < Len(line) /\ IsSpace(line[n + 1])
        THEN Hashes(n - 1) \o SubSeq(line, n + 1, Len(line))
        ELSE line

\* C3: every heading of level n >= 2 is written back with n-1 '#' and the
\* rest of its line, every other line is written back as it was, and the
\* number and order of the lines are kept.
C3_PromotesEveryHeading ==
    /\ ph.pc \in {"loop", "done"} =>
          /\ Len(ph.new_lines) <= Len(ph.lines)
          /\ \A k \in 1..Len(ph.new_lines) :
                ph.new_lines[k] = Promoted(ph.lines[k])
    /\ ph.pc = "done" =>
          /\ Len(ph.new_lines) = Len(ph.lines)
          /\ ph.master_output = Flatten([k \in 1..Len(ph.lines) |->
                                            Promoted(ph.lines[k])])

\* The script has run on a file with a level-3 heading, a level-1 heading
\* and a line that is no heading.
C3_Witness ==
    /\ ph.pc = "done"
    /\ \E k \in 1..Len(ph.lines) :
          HasPrefixAt(ph.lines[k], 1, <<"#", "#", " ">>)
          /\ ph.new_lines[k] = Tail(ph.lines[k])
    /\ \E k \in 1..Len(ph.lines) :
          HasPrefixAt(ph.lines[k], 1, <<"#", "\n">>)
          /\ ph.new_lines[k] = ph.lines[k]

(***************************************************************************)
(* javascript-and-design/add_newlines_before_lists.py                      *)
(***************************************************************************)

\* The number of lines of the input file.
MaxLines == 4

\* The lines the input files are made of: blank lines, plain text, list
\* items of every kind, near misses and code fences.
AnlSampleLines ==
    { <<>>, <<" ">>, <<"a">>, <<"-", " ", "a">>, <<" ", "*", " ", "a">>,
      <<"+", "\t", "a">>, <<"1", ".", " ", "a">>, <<"1", "2", ")", " ", "a">>,
      <<"-", "a">>, Fence, <<" ">> \o Fence \o <<"p">> }

RECURSIVE JoinLines(_)
\* '\n'.join(ls)
JoinLines(ls) ==
    IF ls = <<>> THEN <<>>
    ELSE IF Len(ls) = 1 THEN ls[1]
    ELSE ls[1] \o <<"\n">> \o JoinLines(Tail(ls))

RECURSIVE SplitLines(_)
\* t.split('\n'): at least one line, none of them holding a "\n".
SplitLines(t) ==
    IF \A p \in 1..Len(t) : t[p] # "\n" THEN <<t>>
    ELSE LET e == LineEnd(t, 1)
         IN  <<SubSeq(t, 1, e - 1)>> \o SplitLines(SubSeq(t, e + 1, Len(t)))

AnlInputs ==
    {JoinLines(ls) : ls \in SeqUpTo(AnlSampleLines, MaxLines) \ {<<>>}}

\* line.lstrip()
LStrip(line) == SubSeq(line, SkipSpace(line, 1), Len(line))

IsDigit(c) == c \in {"0", "1", "2", "3", "4", "5", "6", "7", "8", "9"}

RECURSIVE SkipDigits(_, _)
\* The first position at or after p that holds no digit (a greedy \d+).
SkipDigits(t, p) ==
    IF p <= Len(t) /\ IsDigit(t[p]) THEN SkipDigits(t, p + 1) ELSE p

\* A mutant of is_list_item: the ordered-list pattern is missing.
is_list_item_unordered_only(line) ==
    LET stripped == LStrip(line)
    IN  /\ Len(stripped) >= 2
        /\ stripped[1] \in {"-", "*", "+"}
        /\ IsSpace(stripped[2])

is_list_item(line) ==
    LET stripped == LStrip(line)
        d == SkipDigits(stripped, 1)
    IN  \/ /\ Len(stripped) >= 2
           /\ stripped[1] \in {"-", "*", "+"}
           /\ IsSpace(stripped[2])
        \/ /\ d > 1
           /\ d + 1 <= Len(stripped)
           /\ stripped[d] \in {".", ")"}
           /\ IsSpace(stripped[d + 1])

is_blank_line(line) == \A p \in 1..Len(line) : IsSpace(line[p])

\* A mutant of is_code_fence: line.startswith of the fence, without the strip.
is_code_fence_unstripped(line) == HasPrefixAt(line, 1, Fence)

is_code_fence(line) == HasPrefixAt(LStrip(line), 1, Fence)

InitAnl ==
    /\ anl \in {[pc |-> "read", input_file |-> t, content |-> <<>>,
                 lines |-> <<>>, result |-> <<>>, in_code_block |-> FALSE,
                 i |-> 0, modified_content |-> <<>>,
                 output_file |-> NoFile] : t \in AnlInputs}
    /\ OthersOff_anl

AnlRead ==
    /\ anl.pc = "read"
    /\ anl' = [anl EXCEPT !.pc = "split", !.content = anl.input_file]
    /\ UNCHANGED Others_anl

AnlSplit ==
    /\ anl.pc = "split"
    /\ anl' = [anl EXCEPT !.pc = "loop", !.lines = SplitLines(anl.content),
                          !.result = <<>>, !.in_code_block = FALSE, !.i = 0]
    /\ UNCHANGED Others_anl

\* One iteration of the loop over enumerate(lines); i is the 0-based index.
AnlLine ==
    /\ anl.pc = "loop"
    /\ anl.i < Len(anl.lines)
    /\ LET line == anl.lines[anl.i + 1]
       IN  IF is_code_fence(line)
           THEN anl' = [anl EXCEPT !.in_code_block = ~anl.in_code_block,
                                   !.result = Append(@, line),
                                   !.i = @ + 1]
           ELSE IF anl.in_code_block
           THEN anl' = [anl EXCEPT !.result = Append(@, line), !.i = @ + 1]
           ELSE IF /\ is_list_item(line)
                   /\ anl.i > 0
                   /\ ~is_blank_line(anl.lines[anl.i])
                   /\ ~is_list_item(anl.lines[anl.i])
           THEN anl' = [anl EXCEPT !.result = @ \o <<<<>>, line>>,
                                   !.i = @ + 1]
           ELSE anl' = [anl EXCEPT !.result = Append(@, line), !.i = @ + 1]
    /\ UNCHANGED Others_anl

AnlReturn ==
    /\ anl.pc = "loop"
    /\ anl.i = Len(anl.lines)
    /\ anl' = [anl EXCEPT !.pc = "write",
                          !.modified_content = JoinLines(anl.result)]
    /\ UNCHANGED Others_anl

AnlWrite ==
    /\ anl.pc = "write"
    /\ anl' = [anl EXCEPT !.pc = "done", !.output_file = anl.modified_content]
    /\ UNCHANGED Others_anl

NextAnl == AnlRead \/ AnlSplit \/ AnlLine \/ AnlReturn \/ AnlWrite

SpecAnl == InitAnl /\ [][NextAnl]_vars

\* A list-item line: indentation, then '-', '*' or '+' and whitespace, or
\* digits, '.' or ')' and whitespace.
ListItemLine(line) ==
    \E k \in 1..Len(line) :
        /\ \A j \in 1..(k - 1) : IsSpace(line[j])
        /\ ~IsSpace(line[k])
        /\ \/ line[k] \in {"-", "*", "+"} /\ k < Len(line) /\ IsSpace(line[k + 1])
           \/ \E e \in k..Len(line) :
                 /\ \A j \in k..e : IsDigit(line[j])
                 /\ e + 2 <= Len(line)
                 /\ line[e + 1] \in {".", ")"}
                 /\ IsSpace(line[e + 2])

BlankLine(line) == \A p \in 1..Len(line) : IsSpace(line[p])

FenceLine(line) ==
    \E k \in 1..Len(line) :
        /\ \A j \in 1..(k - 1) : IsSpace(line[j])
        /\ HasPrefixAt(line, k, Fence)

\* Line j of ls lies outside the fenced code blocks: it is no fence and an
\* even number of fences precede it.
OutsideCode(ls, j) ==
    /\ ~FenceLine(ls[j])
    /\ Cardinality({k \in 1..(j - 1) : FenceLine(ls[k])}) % 2 = 0

\* C4: in the output every list-item line outside the fenced code blocks is
\* the first line, or follows a blank line, or follows a list-item line.
C4_ListItemsSetOff ==
    anl.pc = "done" =>
        LET out == SplitLines(anl.output_file)
        IN  \A j \in 1..Len(out) :
                ListItemLine(out[j]) /\ OutsideCode(out, j) =>
                    \/ j = 1
                    \/ BlankLine(out[j - 1])
                    \/ ListItemLine(out[j - 1])

\* The script has run on a file where an ordered list item follows a line of
\* text and another follows a closing fence: both got a blank line.
C4_Witness ==
    /\ anl.pc = "done"
    /\ Len(anl.lines) = 4
    /\ anl.lines[1] = Fence
    /\ anl.lines[2] = Fence
    /\ anl.lines[3] = <<"1", ".", " ", "a">>
    /\ anl.lines[4] = <<"-", " ", "a">>
    /\ Len(SplitLines(anl.output_file)) = 5

RECURSIVE OnlyEmptyLinesAdded(_, _)
\* out is inp with empty lines added and nothing else changed.
OnlyEmptyLinesAdded(inp, out) ==
    IF out = <<>> THEN inp = <<>>
    ELSE IF inp # <<>> /\ Head(inp) = Head(out)
    THEN OnlyEmptyLinesAdded(Tail(inp), Tail(out))
    ELSE Head(out) = <<>> /\ OnlyEmptyLinesAdded(inp, Tail(out))

RECURSIVE CodeLines(_, _)
\* The fences of ls and the lines between an opening fence and its closing
\* fence, in order; open says that the lines are inside a block.
CodeLines(ls, open) ==
    IF ls = <<>> THEN <<>>
    ELSE IF FenceLine(Head(ls)) THEN <<Head(ls)>> \o CodeLines(Tail(ls), ~open)
    ELSE IF open THEN <<Head(ls)>> \o CodeLines(Tail(ls), open)
    ELSE CodeLines(Tail(ls), open)

\* C5: the output is the input with empty lines added, and none of them is
\* added inside a fenced code block.
C5_OnlyEmptyLinesOutsideCode ==
    anl.pc = "done" =>
        LET inp == SplitLines(anl.input_file)
            out == SplitLines(anl.output_file)
        IN  /\ OnlyEmptyLinesAdded(inp, out)
            /\ CodeLines(out, FALSE) = CodeLines(inp, FALSE)

\* The script has run on a file with a list item after text outside a code
\* block (a line was added) and one after text inside a code block.
C5_Witness ==
    /\ anl.pc = "done"
    /\ Len(anl.lines) = 4
    /\ anl.lines[1] = <<"a">>
    /\ anl.lines[2] = <<"-", " ", "a">>
    /\ anl.lines[3] = <<" ">> \o Fence \o <<"p">>
    /\ anl.lines[4] = <<"-", " ", "a">>
    /\ Len(anl.result) = 5

(***************************************************************************)
(* javascript-and-design/convert_to_org.py: convert_inline_formatting      *)
(***************************************************************************)

\* The number of tokens of a text given to convert_inline_formatting.
MaxInlineTokens == 4

InlineTokens ==
    { <<"*">>, <<"*", "*">>, <<"_">>, <<"_", "_">>, <<"a">>, <<" ">>,
      <<"[", "a", "]", "(", "b", ")">>, <<BQ>>, <<"~", "~">> }

InlineInputs == {Flatten(s) : s \in SeqUpTo(InlineTokens, MaxInlineTokens)}

RECURSIVE NextChar(_, _, _)
\* The first position at or after p that holds c, or 0.
NextChar(t, p, c) ==
    IF p > Len(t) THEN 0
    ELSE IF t[p] = c THEN p
    ELSE NextChar(t, p + 1, c)

RECURSIVE SubLinks(_, _)
\* re.sub(r'\[([^\]]+)\]\(([^\)]+)\)', r'[[\2][\1]]', t) from position p on.
SubLinks(t, p) ==
    IF p > Len(t) THEN <<>>
    ELSE LET e1 == IF t[p] = "[" THEN NextChar(t, p + 1, "]") ELSE 0
             e2 == IF e1 >= p + 2 /\ e1 + 1 <= Len(t) /\ t[e1 + 1] = "("
                   THEN NextChar(t, e1 + 2, ")") ELSE 0
         IN  IF e1 >= p + 2 /\ e2 >= e1 + 3
             THEN <<"[", "[">> \o SubSeq(t, e1 + 2, e2 - 1) \o <<"]", "[">>
                  \o SubSeq(t, p + 1, e1 - 1) \o <<"]", "]">>
                  \o SubLinks(t, e2 + 1)
             ELSE <<t[p]>> \o SubLinks(t, p + 1)

RECURSIVE FirstDouble(_, _, _)
\* The lazy (.+?) before a closing dd: the first position e >= q with
\* t[e] = t[e+1] = d, every character before it matched by '.'; or 0.
FirstDouble(t, q, d) ==
    IF q + 1 > Len(t) \/ t[q - 1] = "\n" THEN 0
    ELSE IF t[q] = d /\ t[q + 1] = d THEN q
    ELSE FirstDouble(t, q + 1, d)

\* The start of the closing dd of a match of dd(.+?)dd that begins at p, or 0.
DoubleEnd(t, p, d) ==
    IF p + 1 <= Len(t) /\ t[p] = d /\ t[p + 1] = d
    THEN FirstDouble(t, p + 3, d)
    ELSE 0

RECURSIVE SubDouble(_, _, _, _)
\* re.sub of dd(.+?)dd by r\1r from position p on (d and r one character):
\* bold with d = '*' or '_' and r = '*', strikethrough with d = '~', r = '+'.
SubDouble(t, p, d, r) ==
    IF p > Len(t) THEN <<>>
    ELSE IF DoubleEnd(t, p, d) # 0
    THEN <<r>> \o SubSeq(t, p + 2, DoubleEnd(t, p, d) - 1) \o <<r>>
         \o SubDouble(t, DoubleEnd(t, p, d) + 2, d, r)
    ELSE <<t[p]>> \o SubDouble(t, p + 1, d, r)

RECURSIVE FirstSingle(_, _, _)
\* The lazy (.+?) before a closing (?<!d)d(?!d): the first position e >= q
\* that holds a d with no d before it and none after it; or 0.
FirstSingle(t, q, d) ==
    IF q > Len(t) \/ t[q - 1] = "\n" THEN 0
    ELSE IF /\ t[q] = d
            /\ t[q - 1] # d
            /\ (q = Len(t) \/ t[q + 1] # d)
    THEN q
    ELSE FirstSingle(t, q + 1, d)

\* The closing d of a match of (?<!d)d(?!d)(.+?)(?<!d)d(?!d) that begins at
\* p, or 0.
SingleEnd(t, p, d) ==
    IF /\ t[p] = d
       /\ (p = 1 \/ t[p - 1] # d)
       /\ p + 1 <= Len(t)
       /\ t[p + 1] # d
    THEN FirstSingle(t, p + 2, d)
    ELSE 0

RECURSIVE SubSingle(_, _, _)
\* re.sub of (?<!d)d(?!d)(.+?)(?<!d)d(?!d) by /\1/ from position p on.
SubSingle(t, p, d) ==
    IF p > Len(t) THEN <<>>
    ELSE IF SingleEnd(t, p, d) # 0
    THEN <<"/">> \o SubSeq(t, p + 1, SingleEnd(t, p, d) - 1) \o <<"/">>
         \o SubSingle(t, SingleEnd(t, p, d) + 1, d)
    ELSE <<t[p]>> \o SubSingle(t, p + 1, d)

RECURSIVE SubCode(_, _)
\* re.sub of a backquote, ([^backquote]+), a backquote by =\1= from p on.
SubCode(t, p) ==
    IF p > Len(t) THEN <<>>
    ELSE IF t[p] = BQ /\ NextChar(t, p + 1, BQ) >= p + 2
    THEN <<"=">> \o SubSeq(t, p + 1, NextChar(t, p + 1, BQ) - 1) \o <<"=">>
         \o SubCode(t, NextChar(t, p + 1, BQ) + 1)
    ELSE <<t[p]>> \o SubCode(t, p + 1)

\* The seven substitutions of convert_inline_formatting, in order.
InlineSteps ==
    <<"links", "bold_star", "bold_under", "italic_star", "italic_under",
      "code", "strike">>

InlineStep(k, t) ==
    CASE k = 1 -> SubLinks(t, 1)
      [] k = 2 -> SubDouble(t, 1, "*", "*")
      [] k = 3 -> SubDouble(t, 1, "_", "*")
      [] k = 4 -> SubSingle(t, 1, "*")
      [] k = 5 -> SubSingle(t, 1, "_")
      [] k = 6 -> SubCode(t, 1)
      [] k = 7 -> SubDouble(t, 1, "~", "+")

convert_inline_formatting(text) ==
    InlineStep(7, InlineStep(6, InlineStep(5, InlineStep(4,
        InlineStep(3, InlineStep(2, InlineStep(1, text)))))))

InitCif ==
    /\ cif \in {[pc |-> "links", arg |-> t, text |-> t, returned |-> NoFile] :
                   t \in InlineInputs}
    /\ OthersOff_cif

CifLinks ==
    /\ cif.pc = "links"
    /\ cif' = [cif EXCEPT !.pc = "bold_star", !.text = InlineStep(1, cif.text)]
    /\ UNCHANGED Others_cif

CifBoldStar ==
    /\ cif.pc = "bold_star"
    /\ cif' = [cif EXCEPT !.pc = "bold_under", !.text = InlineStep(2, cif.text)]
    /\ UNCHANGED Others_cif

CifBoldUnder ==
    /\ cif.pc = "bold_under"
    /\ cif' = [cif EXCEPT !.pc = "italic_star", !.text = InlineStep(3, cif.text)]
    /\ UNCHANGED Others_cif

CifItalicStar ==
    /\ cif.pc = "italic_star"
    /\ cif' = [cif EXCEPT !.pc = "italic_under",
                          !.text = InlineStep(4, cif.text)]
    /\ UNCHANGED Others_cif

CifItalicUnder ==
    /\ cif.pc = "italic_under"
    /\ cif' = [cif EXCEPT !.pc = "code", !.text = InlineStep(5, cif.text)]
    /\ UNCHANGED Others_cif

CifCode ==
    /\ cif.pc = "code"
    /\ cif' = [cif EXCEPT !.pc = "strike", !.text = InlineStep(6, cif.text)]
    /\ UNCHANGED Others_cif

CifStrike ==
    /\ cif.pc = "strike"
    /\ cif' = [cif EXCEPT !.pc = "return", !.text = InlineStep(7, cif.text)]
    /\ UNCHANGED Others_cif

CifReturn ==
    /\ cif.pc = "return"
    /\ cif' = [cif EXCEPT !.pc = "done", !.returned = cif.text]
    /\ UNCHANGED Others_cif

NextCif ==
    \/ CifLinks \/ CifBoldStar \/ CifBoldUnder \/ CifItalicStar
    \/ CifItalicUnder \/ CifCode \/ CifStrike \/ CifReturn

SpecCif == InitCif /\ [][NextCif]_vars

\* Text without any Markdown marker.
PlainText(t) == \A p \in 1..Len(t) : t[p] \in {"a", " "}

\* t is plain text, then the word w between the markers open and close,
\* then plain text; Wrapped gives the same text with other markers.
Wrapped(pre, open, w, close, post) == pre \o open \o w \o close \o post

SpanConverted(t, out, open, newOpen) ==
    \A i \in 0..Len(t), e \in 0..Len(t) :
        LET pre  == SubSeq(t, 1, i)
            w    == SubSeq(t, i + Len(open) + 1, e - 1)
            post == SubSeq(t, e + Len(open), Len(t))
        IN  (/\ i + Len(open) + 2 <= e
             /\ e + Len(open) - 1 <= Len(t)
             /\ PlainText(pre) /\ PlainText(w) /\ PlainText(post)
             /\ w[1] = "a" /\ w[Len(w)] = "a"
             /\ t = Wrapped(pre, open, w, open, post))
            => out = Wrapped(pre, newOpen, w, newOpen, post)

\* C8: a text that holds one span **w** or __w__ comes back with *w* in
\* its place, and one that holds one span *w* or _w_ comes back with /w/.
C8_BoldAndItalicConverted ==
    cif.pc = "done" =>
        /\ SpanConverted(cif.arg, cif.returned, <<"*", "*">>, <<"*">>)
        /\ SpanConverted(cif.arg, cif.returned, <<"_", "_">>, <<"*">>)
        /\ SpanConverted(cif.arg, cif.returned, <<"*">>, <<"/">>)
        /\ SpanConverted(cif.arg, cif.returned, <<"_">>, <<"/">>)

(***************************************************************************)
(* javascript-and-design/convert_to_org.py: convert_md_to_org              *)
(***************************************************************************)

\* The number of lines of the Markdown file.
MaxOrgLines == 3

Hash7 == <<"#", "#", "#", "#", "#", "#", "#">>

\* The lines the Markdown files are made of.
OrgSampleLines ==
    { <<>>, <<"a">>, <<"-", "-", "-">>, <<"k", ":", " ", "a">>,
      Fence, Fence \o <<"p">>,
      <<"#", " ", "a">>, <<"#", "#", " ", "*", "*", "a", "*", "*">>,
      <<"#", "a">>, <<"#", " ", " ">>,
      SubSeq(Hash7, 1, 6) \o <<"\t", "a">>, Hash7 \o <<" ", "a">>,
      <<"|", "a", "|">>, <<"|", "-", "-", "|">> }

OrgInputs ==
    {JoinLines(ls) : ls \in SeqUpTo(OrgSampleLines, MaxOrgLines) \ {<<>>}}

RECURSIVE RStripLen(_, _)
\* The length of t[1..n] without its trailing whitespace.
RStripLen(t, n) == IF n >= 1 /\ IsSpace(t[n]) THEN RStripLen(t, n - 1) ELSE n

\* line.strip()
Strip(line) ==
    SubSeq(line, SkipSpace(line, 1), RStripLen(line, Len(line)))

YamlFence == <<"-", "-", "-">>

Letters == {UpperLetters[k] : k \in 1..26} \cup {LowerLetters[k] : k \in 1..26}

\* \w
IsWord(c) == c \in Letters \/ IsDigit(c) \/ c = "_"

Upper(t) == [k \in 1..Len(t) |-> UpperChar(t[k])]

RECURSIVE SkipWord(_, _)
\* The first position at or after p that holds no word character (\w+).
SkipWord(t, p) ==
    IF p <= Len(t) /\ IsWord(t[p]) THEN SkipWord(t, p + 1) ELSE p

RECURSIVE StripQuotes(_)
\* value.strip('"')
StripQuotes(t) ==
    IF t # <<>> /\ t[1] = "\"" THEN StripQuotes(Tail(t))
    ELSE IF t # <<>> /\ t[Len(t)] = "\"" THEN StripQuotes(SubSeq(t, 1, Len(t) - 1))
    ELSE t

\* The group (.+) of r'\s+(.+)$' or r'\s*(.+)$' matched from position p on:
\* the text after the whitespace, or the last whitespace character when the
\* rest is whitespace only and min <= its length - 1; <<>> for no match.
RestGroup(t, p, min) ==
    LET q == SkipSpace(t, p)
    IN  IF q <= Len(t) THEN (IF q - p >= min THEN SubSeq(t, q, Len(t)) ELSE <<>>)
        ELSE IF Len(t) - p >= min /\ p <= Len(t) THEN <<t[Len(t)]>>
        ELSE <<>>

\* re.match(r'^(\w+):\s*(.+)$', line): <<key, value>>, or <<>> for no match.
YamlMatch(line) ==
    LET c == SkipWord(line, 1)
    IN  IF c > 1 /\ c <= Len(line) /\ line[c] = ":"
           /\ RestGroup(line, c + 1, 0) # <<>>
        THEN <<SubSeq(line, 1, c - 1), RestGroup(line, c + 1, 0)>>
        ELSE <<>>

\* yaml_properties[key] = value: a dict keeps the position of a key it has.
DictSet(d, key, value) ==
    IF \E k \in 1..Len(d) : d[k][1] = key
    THEN [k \in 1..Len(d) |-> IF d[k][1] = key THEN <<key, value>> ELSE d[k]]
    ELSE Append(d, <<key, value>>)

\* f"#+{key.upper()}: {value}" for every item of yaml_properties.
PropertyLines(d) ==
    [k \in 1..Len(d) |-> <<"#", "+">> \o Upper(d[k][1]) \o <<":", " ">> \o d[k][2]]

BeginSrc == <<"#", "+", "B", "E", "G", "I", "N", "_", "S", "R", "C", " ">>

BeginExample ==
    <<"#", "+", "B", "E", "G", "I", "N", "_", "E", "X", "A", "M", "P", "L", "E">>

EndSrc == <<"#", "+", "E", "N", "D", "_", "S", "R", "C">>

EndExample == <<"#", "+", "E", "N", "D", "_", "E", "X", "A", "M", "P", "L", "E">>

\* A mutant of EndLine: every block is closed as a source block.
EndLineAlwaysSrc(code_language) == EndSrc

\* The line that closes a block opened with code_language.
EndLine(code_language) ==
    IF code_language # <<>> THEN EndSrc ELSE EndExample

\* The line that opens a block with code_language.
BeginLine(code_language) ==
    IF code_language # <<>> THEN BeginSrc \o code_language ELSE BeginExample

\* A mutant of HeadingMatchOrg: the pattern is r'^(#+)\s+(.+)$'.
HeadingMatchOrgNoLimit(line) ==
    LET n == CountHashes(line, 1)
    IN  IF n >= 1 /\ RestGroup(line, n + 1, 1) # <<>>
        THEN <<n, RestGroup(line, n + 1, 1)>>
        ELSE <<>>

\* re.match(r'^(#{1,6})\s+(.+)$', line): <<level, title>>, or <<>>.
HeadingMatchOrg(line) ==
    LET n == CountHashes(line, 1)
    IN  IF n >= 1 /\ n <= 6 /\ RestGroup(line, n + 1, 1) # <<>>
        THEN <<n, RestGroup(line, n + 1, 1)>>
        ELSE <<>>

Stars(n) == [k \in 1..n |-> "*"]

\* '|' in line and line.strip().startswith('|')
IsTableRow(line) ==
    /\ \E p \in 1..Len(line) : line[p] = "|"
    /\ HasPrefixAt(Strip(line), 1, <<"|">>)

\* re.match(r'^\|[\s\-:|]+\|$', line)
IsSeparator(line) ==
    /\ Len(line) >= 3
    /\ line[1] = "|" /\ line[Len(line)] = "|"
    /\ \A p \in 2..(Len(line) - 1) :
          IsSpace(line[p]) \/ line[p] \in {"-", ":", "|"}

RECURSIVE CollapseDashes(_)
\* re.sub(r'-+', '-', separator)
CollapseDashes(t) ==
    IF t = <<>> THEN <<>>
    ELSE IF Len(t) >= 2 /\ t[1] = "-" /\ t[2] = "-" THEN CollapseDashes(Tail(t))
    ELSE <<t[1]>> \o CollapseDashes(Tail(t))

\* re.match(r'^[\-*_]{3,}$', line.strip())
IsRule(line) ==
    /\ Len(Strip(line)) >= 3
    /\ \A p \in 1..Len(Strip(line)) : Strip(line)[p] \in {"-", "*", "_"}

InitOrg ==
    /\ org \in {[pc |-> "read", input_file |-> t, md_content |-> <<>>,
                 lines |-> <<>>, org_lines |-> <<>>, in_code_block |-> FALSE,
                 in_yaml_frontmatter |-> FALSE, code_language |-> <<>>,
                 yaml_properties |-> <<>>, i |-> 0, markers |-> <<>>,
                 org_content |-> <<>>, output_file |-> NoFile] :
                   t \in OrgInputs}
    /\ OthersOff_org

OrgRead ==
    /\ org.pc = "read"
    /\ org' = [org EXCEPT !.pc = "split", !.md_content = org.input_file]
    /\ UNCHANGED Others_org

OrgSplit ==
    /\ org.pc = "split"
    /\ org' = [org EXCEPT !.pc = "loop", !.lines = SplitLines(org.md_content)]
    /\ UNCHANGED Others_org

\* The loop has a line to handle.
OrgLooping == org.pc = "loop" /\ org.i < Len(org.lines)

\* line = lines[i]
OrgLine == org.lines[org.i + 1]

\* The first test of the loop body: the line opens the YAML frontmatter.
OpensYaml == org.i = 0 /\ Strip(OrgLine) = YamlFence

\* The line passes the tests for the frontmatter.
OrgPastYaml == OrgLooping /\ ~OpensYaml /\ ~org.in_yaml_frontmatter

\* The line passes the tests for the frontmatter and the code blocks.
OrgPastCode ==
    OrgPastYaml /\ ~HasPrefixAt(OrgLine, 1, Fence) /\ ~org.in_code_block

OrgYamlOpen ==
    /\ OrgLooping
    /\ OpensYaml
    /\ org' = [org EXCEPT !.in_yaml_frontmatter = TRUE, !.i = @ + 1]
    /\ UNCHANGED Others_org

OrgYamlClose ==
    /\ OrgLooping
    /\ ~OpensYaml
    /\ org.in_yaml_frontmatter
    /\ Strip(OrgLine) = YamlFence
    /\ org' = [org EXCEPT !.in_yaml_frontmatter = FALSE,
                          !.org_lines = @ \o PropertyLines(org.yaml_properties)
                                          \o <<<<>>>>,
                          !.i = @ + 1]
    /\ UNCHANGED Others_org

OrgYamlProperty ==
    /\ OrgLooping
    /\ ~OpensYaml
    /\ org.in_yaml_frontmatter
    /\ Strip(OrgLine) # YamlFence
    /\ org' = [org EXCEPT !.yaml_properties =
                              IF YamlMatch(OrgLine) # <<>>
                              THEN DictSet(@, YamlMatch(OrgLine)[1],
                                           StripQuotes(YamlMatch(OrgLine)[2]))
                              ELSE @,
                          !.i = @ + 1]
    /\ UNCHANGED Others_org

OrgFenceOpen ==
    /\ OrgPastYaml
    /\ HasPrefixAt(OrgLine, 1, Fence)
    /\ ~org.in_code_block
    /\ LET lang == Strip(SubSeq(OrgLine, 4, Len(OrgLine)))
       IN  org' = [org EXCEPT !.in_code_block = TRUE,
                              !.code_language = lang,
                              !.org_lines = Append(@, BeginLine(lang)),
                              !.markers = Append(@, BeginLine(lang)),
                              !.i = @ + 1]
    /\ UNCHANGED Others_org

OrgFenceClose ==
    /\ OrgPastYaml
    /\ HasPrefixAt(OrgLine, 1, Fence)
    /\ org.in_code_block
    /\ org' = [org EXCEPT !.in_code_block = FALSE,
                          !.org_lines = Append(@, EndLine(org.code_language)),
                          !.markers = Append(@, EndLine(org.code_language)),
                          !.code_language = <<>>,
                          !.i = @ + 1]
    /\ UNCHANGED Others_org

OrgCodeLine ==
    /\ OrgPastYaml
    /\ ~HasPrefixAt(OrgLine, 1, Fence)
    /\ org.in_code_block
    /\ org' = [org EXCEPT !.org_lines = Append(@, OrgLine), !.i = @ + 1]
    /\ UNCHANGED Others_org

OrgHeading ==
    /\ OrgPastCode
    /\ HeadingMatchOrg(OrgLine) # <<>>
    /\ LET level == HeadingMatchOrg(OrgLine)[1]
           title == convert_inline_formatting(HeadingMatchOrg(OrgLine)[2])
       IN  org' = [org EXCEPT !.org_lines =
                                  Append(@, Stars(level) \o <<" ">> \o title),
                              !.i = @ + 1]
    /\ UNCHANGED Others_org

OrgTable ==
    /\ OrgPastCode
    /\ HeadingMatchOrg(OrgLine) = <<>>
    /\ IsTableRow(OrgLine)
    /\ IF org.i + 1 < Len(org.lines) /\ IsSeparator(org.lines[org.i + 2])
       THEN org' = [org EXCEPT !.org_lines =
                                   @ \o <<OrgLine,
                                          CollapseDashes(org.lines[org.i + 2])>>,
                               !.i = @ + 2]
       ELSE org' = [org EXCEPT !.org_lines = Append(@, OrgLine), !.i = @ + 1]
    /\ UNCHANGED Others_org

OrgRule ==
    /\ OrgPastCode
    /\ HeadingMatchOrg(OrgLine) = <<>>
    /\ ~IsTableRow(OrgLine)
    /\ IsRule(OrgLine)
    /\ org' = [org EXCEPT !.org_lines = Append(@, <<"-", "-", "-", "-", "-">>),
                          !.i = @ + 1]
    /\ UNCHANGED Others_org

OrgText ==
    /\ OrgPastCode
    /\ HeadingMatchOrg(OrgLine) = <<>>
    /\ ~IsTableRow(OrgLine)
    /\ ~IsRule(OrgLine)
    /\ org' = [org EXCEPT !.org_lines =
                              Append(@, convert_inline_formatting(OrgLine)),
                          !.i = @ + 1]
    /\ UNCHANGED Others_org

OrgReturn ==
    /\ org.pc = "loop"
    /\ org.i >= Len(org.lines)
    /\ org' = [org EXCEPT !.pc = "write", !.org_content = JoinLines(org.org_lines)]
    /\ UNCHANGED Others_org

OrgWrite ==
    /\ org.pc = "write"
    /\ org' = [org EXCEPT !.pc = "done", !.output_file = org.org_content]
    /\ UNCHANGED Others_org

NextOrg ==
    \/ OrgRead \/ OrgSplit \/ OrgYamlOpen \/ OrgYamlClose \/ OrgYamlProperty
    \/ OrgFenceOpen \/ OrgFenceClose \/ OrgCodeLine \/ OrgHeading \/ OrgTable
    \/ OrgRule \/ OrgText \/ OrgReturn \/ OrgWrite

SpecOrg == InitOrg /\ [][NextOrg]_vars

\* The language of a fence line: the text after its three backquotes,
\* without the whitespace around it.
FenceLanguage(line) ==
    LET rest == SubSeq(line, 4, Len(line))
    IN  IF \A p \in 1..Len(rest) : IsSpace(rest[p]) THEN <<>>
        ELSE LET a == CHOOSE x \in 1..Len(rest) :
                          ~IsSpace(rest[x]) /\ \A y \in 1..(x - 1) : IsSpace(rest[y])
                 b == CHOOSE x \in 1..Len(rest) :
                          ~IsSpace(rest[x])
                          /\ \A y \in (x + 1)..Len(rest) : IsSpace(rest[y])
             IN  SubSeq(rest, a, b)

\* The fence that opened the block the loop is in: the last fence line
\* before lines[i].
OpeningFence ==
    org.lines[CHOOSE j \in 1..org.i :
                  /\ HasPrefixAt(org.lines[j], 1, Fence)
                  /\ \A k \in (j + 1)..org.i :
                        ~HasPrefixAt(org.lines[k], 1, Fence)]

IsBeginSrc(m) == HasPrefixAt(m, 1, BeginSrc) /\ Len(m) > Len(BeginSrc)

\* BEGIN and END markers alternate from a BEGIN on, each END of the kind of
\* the BEGIN before it.
MarkersAlternate(ms) ==
    \A k \in 1..Len(ms) :
        IF k % 2 = 1
        THEN IsBeginSrc(ms[k]) \/ ms[k] = BeginExample
        ELSE \/ IsBeginSrc(ms[k - 1]) /\ ms[k] = EndSrc
             \/ ms[k - 1] = BeginExample /\ ms[k] = EndExample

C6_Step ==
    /\ MarkersAlternate(org'.markers)
    /\ OrgPastYaml =>
          IF HasPrefixAt(OrgLine, 1, Fence)
          THEN /\ org'.org_lines =
                     Append(org.org_lines,
                            IF ~org.in_code_block
                            THEN IF FenceLanguage(OrgLine) # <<>>
                                 THEN BeginSrc \o FenceLanguage(OrgLine)
                                 ELSE BeginExample
                            ELSE IF FenceLanguage(OpeningFence) # <<>>
                                 THEN EndSrc
                                 ELSE EndExample)
               /\ org'.markers =
                     Append(org.markers, org'.org_lines[Len(org'.org_lines)])
          ELSE /\ org'.markers = org.markers
               /\ org.in_code_block =>
                      org'.org_lines = Append(org.org_lines, OrgLine)

\* C6: an opening fence becomes #+BEGIN_SRC <lang> or #+BEGIN_EXAMPLE, its
\* closing fence the END marker of the same kind, the lines between them are
\* copied as they are, and the markers emitted alternate BEGIN, END from a
\* BEGIN on.
C6_CodeBlocksConverted == [][C6_Step]_vars

\* A source block holding a heading line has been converted: the heading is
\* copied as it is between the two markers.
C6_Witness ==
    /\ org.pc = "done"
    /\ org.lines = <<Fence \o <<"p">>, <<"#", " ", "a">>, Fence>>
    /\ org.org_lines = <<BeginSrc \o <<"p">>, <<"#", " ", "a">>, EndSrc>>
    /\ org.markers = <<BeginSrc \o <<"p">>, EndSrc>>

C7_Step ==
    OrgPastCode =>
        LET line == OrgLine
            n == CHOOSE m \in 0..Len(line) :
                     /\ \A k \in 1..m : line[k] = "#"
                     /\ m < Len(line) => line[m + 1] # "#"
            q == SkipSpace(line, n + 1)
        IN  IF n >= 1 /\ n <= 6 /\ q > n + 1 /\ q <= Len(line)
            THEN org'.org_lines =
                     Append(org.org_lines,
                            Stars(n) \o <<" ">>
                            \o convert_inline_formatting(SubSeq(line, q, Len(line))))
            ELSE IF n >= 1 /\ n <= 6 /\ q > n + 2
            THEN \E k \in (n + 2)..Len(line) :
                     org'.org_lines =
                         Append(org.org_lines,
                                Stars(n) \o <<" ">>
                                \o convert_inline_formatting(SubSeq(line, k, Len(line))))
            ELSE n >= 7 =>
                     org'.org_lines =
                         Append(org.org_lines, convert_inline_formatting(line))

MaxDocLines == 5

\* How far find_pattern_name_before_line looks back.
LookBack == 1000

\* The em dash (the module's strings are ASCII).
EmDash == "emdash"

SnippetHeader ==
    <<"#", "#", " ", "P", "y", "t", "h", "o", "n", " ", "A", "r", "c", "h",
      "i", "t", "e", "c", "t", "u", "r", "e", " ", "D", "i", "a", "g", "r",
      "a", "m", " ", "S", "n", "i", "p", "p", "e", "t">>

ContinuedPrefix == <<"#", "#", " ", "C", "O", "N", "T", "I", "N", "U", "E", "D", ":">>

PatternSuffix == <<"_", "p", "a", "t", "t", "e", "r", "n">>

\* The lines master_output.md is made of: a pattern header that maps to
\* pubsub_pattern.py, a pattern header without a dash, the snippet header, a
\* blank line and a line of text.
ApsSampleLines ==
    { ContinuedPrefix \o <<" ", "A", " ", EmDash, " ", "P", "u", "b", "/", "S", "u", "b", "\n">>,
      ContinuedPrefix \o <<" ", "P", "r", "o", "x", "y", "\n">>,
      SnippetHeader \o <<"\n">>,
      <<"\n">>,
      <<"x", "\n">> }

ApsInputs == {Flatten(ls) : ls \in SeqUpTo(ApsSampleLines, MaxDocLines)}

PubsubFile == <<"p", "u", "b", "s", "u", "b", "_", "p", "a", "t", "t", "e", "r", "n">>

\* What build/diagrams can hold: no file, or pubsub_pattern.py with a last
\* line that ends in a newline or does not.
ApsDirectories ==
    { {}, {<<PubsubFile, <<"x", "\n">>>>}, {<<PubsubFile, <<"x">>>>} }

\* python_file.exists()
FileExists(dir, name) == \E f \in dir : f[1] = name

\* f.read()
FileContent(dir, name) == (CHOOSE f \in dir : f[1] = name)[2]

\* lines[i] of a 0-based Python list.
At(lines, i) == lines[i + 1]

\* The first loop of main: the 0-based indexes of the snippet headers,
\* in ascending order.
SnippetSections(lines) ==
    LET S == {i \in 0..(Len(lines) - 1) : Strip(At(lines, i)) = SnippetHeader}
        F[n \in 0..Len(lines)] ==
            IF n = 0 THEN <<>>
            ELSE IF (n - 1) \in S THEN Append(F[n - 1], n - 1) ELSE F[n - 1]
    IN  F[Len(lines)]

Max(a, b) == IF a >= b THEN a ELSE b

\* for i in range(line_num - 1, max(0, line_num - 1000), -1): the index of
\* the nearest line that starts with '## CONTINUED:', or -1 for None.
find_pattern_name_before_line(lines, line_num) ==
    LET R == {i \in (Max(0, line_num - LookBack) + 1)..(line_num - 1) :
                 HasPrefixAt(At(lines, i), 1, ContinuedPrefix)}
    IN  IF R = {} THEN -1 ELSE CHOOSE i \in R : \A j \in R : j <= i

RECURSIVE ReplaceAll(_, _, _)
\* t.replace(old, new)
ReplaceAll(t, old, new) ==
    IF t = <<>> THEN <<>>
    ELSE IF HasPrefixAt(t, 1, old)
    THEN new \o ReplaceAll(SubSeq(t, Len(old) + 1, Len(t)), old, new)
    ELSE <<t[1]>> \o ReplaceAll(Tail(t), old, new)

LowerText(t) == [k \in 1..Len(t) |-> Lower(t[k])]

EndsWith(t, w) ==
    Len(t) >= Len(w) /\ SubSeq(t, Len(t) - Len(w) + 1, Len(t)) = w

FilenameMapping ==
    <<<<<<"o", "b", "s", "e", "r", "v", "e", "r", "_", "r", "e", "a", "c",
          "t", "i", "v", "e", "_", "s", "t", "r", "e", "a", "m", "s", "_",
          "p", "a", "t", "t", "e", "r", "n">>,
        <<"o", "b", "s", "e", "r", "v", "e", "r", "_", "r", "e", "a", "c",
          "t", "i", "v", "e", "_", "s", "t", "r", "e", "a", "m", "s", "_",
          "p", "a", "t", "t", "e", "r", "n">>>>,
      <<<<"c", "u", "r", "r", "y", "i", "n", "g", "_", "p", "a", "r", "t",
          "i", "a", "l", "_", "a", "p", "p", "l", "i", "c", "a", "t", "i",
          "o", "n", "_", "p", "a", "t", "t", "e", "r", "n">>,
        <<"c", "u", "r", "r", "y", "i", "n", "g", "_", "p", "a", "r", "t",
          "i", "a", "l", "_", "a", "p", "p", "l", "i", "c", "a", "t", "i",
          "o", "n">>>>,
      <<<<"c", "h", "a", "i", "n", "_", "o", "f", "_", "r", "e", "s", "p",
          "o", "n", "s", "i", "b", "i", "l", "i", "t", "y", "_", "p", "a",
          "t", "t", "e", "r", "n">>,
        <<"c", "h", "a", "i", "n", "_", "o", "f", "_", "r", "e", "s", "p",
          "o", "n", "s", "i", "b", "i", "l", "i", "t", "y", "_", "p", "a",
          "t", "t", "e", "r", "n">>>>,
      <<<<"p", "u", "b", "_", "s", "u", "b", "_", "p", "a", "t", "t", "e",
          "r", "n">>,
        <<"p", "u", "b", "s", "u", "b", "_", "p", "a", "t", "t", "e", "r",
          "n">>>>,
      <<<<"m", "v", "c", "_", "m", "o", "d", "e", "l", "_", "v", "i", "e",
          "w", "_", "c", "o", "n", "t", "r", "o", "l", "l", "e", "r", "_",
          "p", "a", "t", "t", "e", "r", "n">>,
        <<"m", "v", "c", "_", "p", "a", "t", "t", "e", "r", "n">>>>,
      <<<<"m", "v", "p", "_", "m", "o", "d", "e", "l", "_", "v", "i", "e",
          "w", "_", "p", "r", "e", "s", "e", "n", "t", "e", "r", "_", "p",
          "a", "t", "t", "e", "r", "n">>,
        <<"m", "v", "p", "_", "p", "a", "t", "t", "e", "r", "n">>>>,
      <<<<"m", "v", "v", "m", "_", "m", "o", "d", "e", "l", "_", "v", "i",
          "e", "w", "_", "v", "i", "e", "w", "m", "o", "d", "e", "l", "_",
          "p", "a", "t", "t", "e", "r", "n">>,
        <<"m", "v", "v", "m", "_", "p", "a", "t", "t", "e", "r", "n">>>>,
      <<<<"c", "q", "r", "s", "_", "c", "o", "m", "m", "a", "n", "d", "_",
          "q", "u", "e", "r", "y", "_", "r", "e", "s", "p", "o", "n", "s",
          "i", "b", "i", "l", "i", "t", "y", "_", "s", "e", "g", "r", "e",
          "g", "a", "t", "i", "o", "n", "_", "p", "a", "t", "t", "e", "r",
          "n">>,
        <<"c", "q", "r", "s", "_", "p", "a", "t", "t", "e", "r", "n">>>>,
      <<<<"f", "u", "n", "c", "t", "i", "o", "n", "a", "l", "_", "c", "o",
          "m", "p", "o", "s", "i", "t", "i", "o", "n", "_", "p", "a", "t",
          "t", "e", "r", "n">>,
        <<"f", "u", "n", "c", "t", "i", "o", "n", "a", "l", "_", "c", "o",
          "m", "p", "o", "s", "i", "t", "i", "o", "n">>>>>>

\* re.search(r'[-]\s*(.+)$', header) with the em dash in the class too:
\* group(1) for the leftmost dash that has a character after it on the line,
\* or <<>> for no match.
DashGroup(header) ==
    LET body == IF header # <<>> /\ header[Len(header)] = "\n"
                THEN SubSeq(header, 1, Len(header) - 1) ELSE header
        P == {p \in 1..(Len(body) - 1) : body[p] \in {EmDash, "-"}}
    IN  IF P = {} THEN <<>>
        ELSE RestGroup(body, (CHOOSE p \in P : \A q \in P : p <= q) + 1, 0)

\* The file name for a pattern header, or <<>> for None.
pattern_name_to_filename(pattern_header) ==
    IF pattern_header = <<>> \/ DashGroup(pattern_header) = <<>> THEN <<>>
    ELSE LET f1 == LowerText(Strip(DashGroup(pattern_header)))
             f2 == ReplaceAll(f1, <<" ", "/", " ">>, <<"_">>)
             f3 == ReplaceAll(f2, <<"/">>, <<"_">>)
             f4 == ReplaceAll(f3, <<" ">>, <<"_">>)
             f5 == ReplaceAll(f4, <<"(">>, <<>>)
             f6 == ReplaceAll(f5, <<")">>, <<>>)
             f7 == ReplaceAll(f6, <<"-">>, <<"_">>)
             f8 == ReplaceAll(f7, <<"&">>, <<>>)
             f9 == ReplaceAll(f8, <<",">>, <<>>)
             f10 == IF EndsWith(f9, PatternSuffix) THEN f9 ELSE f9 \o PatternSuffix
         IN  IF \E k \in 1..Len(FilenameMapping) : FilenameMapping[k][1] = f10
             THEN FilenameMapping[CHOOSE k \in 1..Len(FilenameMapping) :
                                      FilenameMapping[k][1] = f10][2]
             ELSE f10

PythonFence == Fence \o <<"p", "y", "t", "h", "o", "n", "\n">>

\* f"\n```python\n{python_code}```\n\n"
InsertText(python_code) ==
    <<"\n">> \o PythonFence \o python_code \o Fence \o <<"\n", "\n">>

InitAps ==
    /\ aps \in {[pc |-> "read", master_output |-> t, diagrams_dir |-> d,
                 lines |-> <<>>, snippet_sections |-> <<>>, k |-> 0,
                 modifications |-> <<>>, warnings |-> <<>>,
                 master_output_updated |-> NoFile] :
                   t \in ApsInputs, d \in ApsDirectories}
    /\ OthersOff_aps

ApsRead ==
    /\ aps.pc = "read"
    /\ aps' = [aps EXCEPT !.pc = "find", !.lines = ReadLines(aps.master_output)]
    /\ UNCHANGED Others_aps

\* The first loop; k counts the sections the second loop has still to visit,
\* which it visits in reverse.
ApsFind ==
    /\ aps.pc = "find"
    /\ aps' = [aps EXCEPT !.pc = "loop",
                          !.snippet_sections = SnippetSections(aps.lines),
                          !.k = Len(SnippetSections(aps.lines))]
    /\ UNCHANGED Others_aps

ApsLooping == aps.pc = "loop" /\ aps.k >= 1

section_line_num == aps.snippet_sections[aps.k]

\* section_line_num + 1 < len(lines) and lines[section_line_num + 1].strip() == ''
ApsSectionEmpty ==
    /\ section_line_num + 1 < Len(aps.lines)
    /\ Strip(At(aps.lines, section_line_num + 1)) = <<>>

\* The index of the pattern header of the section, or -1.
ApsHeaderAt == find_pattern_name_before_line(aps.lines, section_line_num)

ApsPatternName == pattern_name_to_filename(At(aps.lines, ApsHeaderAt))

ApsHasCode ==
    /\ ApsLooping
    /\ ~ApsSectionEmpty
    /\ aps' = [aps EXCEPT !.k = @ - 1]
    /\ UNCHANGED Others_aps

ApsNoHeader ==
    /\ ApsLooping
    /\ ApsSectionEmpty
    /\ ApsHeaderAt = -1
    /\ aps' = [aps EXCEPT !.k = @ - 1,
                          !.warnings = Append(@, <<"no pattern name",
                                                   section_line_num + 1>>)]
    /\ UNCHANGED Others_aps

ApsNoParse ==
    /\ ApsLooping
    /\ ApsSectionEmpty
    /\ ApsHeaderAt # -1
    /\ ApsPatternName = <<>>
    /\ aps' = [aps EXCEPT !.k = @ - 1,
                          !.warnings = Append(@, <<"cannot parse",
                                                   section_line_num + 1>>)]
    /\ UNCHANGED Others_aps

\* A mutant of ApsNoFile: after the warning the section is filled with an
\* empty block instead of being skipped.
ApsNoFileFallsThrough ==
    /\ ApsLooping
    /\ ApsSectionEmpty
    /\ ApsHeaderAt # -1
    /\ ApsPatternName # <<>>
    /\ ~FileExists(aps.diagrams_dir, ApsPatternName)
    /\ aps' = [aps EXCEPT !.k = @ - 1,
                          !.warnings = Append(@, <<"file not found",
                                                   section_line_num + 1>>),
                          !.lines[section_line_num + 2] = InsertText(<<>>)]
    /\ UNCHANGED Others_aps

ApsNoFile ==
    /\ ApsLooping
    /\ ApsSectionEmpty
    /\ ApsHeaderAt # -1
    /\ ApsPatternName # <<>>
    /\ ~FileExists(aps.diagrams_dir, ApsPatternName)
    /\ aps' = [aps EXCEPT !.k = @ - 1,
                          !.warnings = Append(@, <<"file not found",
                                                   section_line_num + 1>>)]
    /\ UNCHANGED Others_aps

ApsInsert ==
    /\ ApsLooping
    /\ ApsSectionEmpty
    /\ ApsHeaderAt # -1
    /\ ApsPatternName # <<>>
    /\ FileExists(aps.diagrams_dir, ApsPatternName)
    /\ LET python_code == FileContent(aps.diagrams_dir, ApsPatternName)
       IN  aps' = [aps EXCEPT
                     !.k = @ - 1,
                     !.modifications =
                         Append(@, [line_num |-> section_line_num + 1,
                                    pattern |-> Strip(At(aps.lines, ApsHeaderAt)),
                                    filename |-> ApsPatternName,
                                    code_length |-> Len(python_code)]),
                     !.lines[section_line_num + 2] = InsertText(python_code)]
    /\ UNCHANGED Others_aps

ApsWrite ==
    /\ aps.pc = "loop"
    /\ aps.k = 0
    /\ aps' = [aps EXCEPT !.pc = "done",
                          !.master_output_updated = Flatten(aps.lines)]
    /\ UNCHANGED Others_aps

NextAps ==
    \/ ApsRead \/ ApsFind \/ ApsHasCode \/ ApsNoHeader \/ ApsNoParse
    \/ ApsNoFile \/ ApsInsert \/ ApsWrite

SpecAps == InitAps /\ [][NextAps]_vars

\* The lines of master_output.md as the script finds them.
ApsOriginal == ReadLines(aps.master_output)

\* Line j (0-based) of the original is a snippet header followed by a blank
\* line: an empty snippet section.
EmptySection(orig, j) ==
    /\ Strip(At(orig, j)) = SnippetHeader
    /\ j + 1 < Len(orig)
    /\ Strip(At(orig, j + 1)) = <<>>

\* The file name the section at j maps to, or <<>> if no pattern header is
\* found or it cannot be parsed.
SectionFile(orig, j) ==
    IF find_pattern_name_before_line(orig, j) = -1 THEN <<>>
    ELSE pattern_name_to_filename(
             At(orig, find_pattern_name_before_line(orig, j)))

\* The empty section at j can be filled.
Fillable(orig, j) ==
    /\ EmptySection(orig, j)
    /\ SectionFile(orig, j) # <<>>
    /\ FileExists(aps.diagrams_dir, SectionFile(orig, j))

\* The lines the claim asks for in place of line i (0-based): for the blank
\* line of a section that can be filled a blank line, the opening fence, the
\* lines of the file, the closing fence and a blank line; else the line.
ExpectedAt(orig, i) ==
    IF i >= 1 /\ Fillable(orig, i - 1)
    THEN <<<<"\n">>, PythonFence>>
         \o ReadLines(FileContent(aps.diagrams_dir, SectionFile(orig, i - 1)))
         \o <<Fence \o <<"\n">>, <<"\n">>>>
    ELSE <<At(orig, i)>>

\* C9: in the written document the blank line of every section that can be
\* filled is replaced by a blank line, a python fenced block holding the
\* lines of the file and a blank line, and every other line is unchanged.
C9_SectionsFilled ==
    aps.pc = "done" =>
        LET orig == ApsOriginal
        IN  ReadLines(aps.master_output_updated) =
                Flatten([i \in 1..Len(orig) |-> ExpectedAt(orig, i - 1)])

\* The same with a file whose last line ends in a newline: the part of C9
\* that the code keeps.
C9_FilledWhenNewlineTerminated ==
    (aps.pc = "done" /\ <<PubsubFile, <<"x">>>> \notin aps.diagrams_dir) =>
        LET orig == ApsOriginal
        IN  ReadLines(aps.master_output_updated) =
                Flatten([i \in 1..Len(orig) |-> ExpectedAt(orig, i - 1)])

\* C10: an empty section without a pattern header, with a header that cannot
\* be parsed or with a missing file gets a warning, keeps its lines and is
\* not in modifications; every other empty section is filled and counted;
\* and the output file is written.
C10_SkipsOnlyTheSection ==
    aps.pc = "done" =>
      LET orig == ApsOriginal
      IN
        /\ Len(aps.lines) = Len(orig)
        /\ \A j \in 0..(Len(orig) - 1) :
              EmptySection(orig, j) =>
                  IF Fillable(orig, j)
                  THEN /\ At(aps.lines, j + 1) =
                             InsertText(FileContent(aps.diagrams_dir,
                                                    SectionFile(orig, j)))
                       /\ \E m \in 1..Len(aps.modifications) :
                             aps.modifications[m].line_num = j + 1
                  ELSE /\ At(aps.lines, j) = At(orig, j)
                       /\ At(aps.lines, j + 1) = At(orig, j + 1)
                       /\ \E w \in 1..Len(aps.warnings) :
                             aps.warnings[w][2] = j + 1
                       /\ \A m \in 1..Len(aps.modifications) :
                             aps.modifications[m].line_num # j + 1
        /\ Len(aps.modifications) =
              Cardinality({j \in 0..(Len(orig) - 1) : Fillable(orig, j)})
        /\ Len(aps.warnings) =
              Cardinality({j \in 0..(Len(orig) - 1) :
                              EmptySection(orig, j) /\ ~Fillable(orig, j)})
        /\ aps.master_output_updated = Flatten(aps.lines)
        /\ aps.master_output_updated # NoFile

\* The script has run on a document with an empty section that has no
\* pattern header before it and one that could be filled.
C10_Witness ==
    /\ aps.pc = "done"
    /\ Len(aps.warnings) = 1
    /\ aps.warnings[1][1] = "no pattern name"
    /\ Len(aps.modifications) = 1

\* The script has skipped a section whose header has no dash.
C10_WitnessNoParse ==
    /\ aps.pc = "done"
    /\ \E w \in 1..Len(aps.warnings) : aps.warnings[w][1] = "cannot parse"

\* The script has skipped a section whose file is missing.
C10_WitnessNoFile ==
    /\ aps.pc = "done"
    /\ \E w \in 1..Len(aps.warnings) : aps.warnings[w][1] = "file not found"

(***************************************************************************)
(* How-X-works/replace_code_with_png.py                                    *)
(***************************************************************************)

\* The number of blocks of an input text.
MaxBlocks == 3

\* after_code[:200]
CheckedChars == 200

DiagramHeaders ==
    <<<<"#", "#", " ", "P", "y", "t", "h", "o", "n", " ", "A", "r", "c", "h",
        "i", "t", "e", "c", "t", "u", "r", "e", " ", "D", "i", "a", "g", "r",
        "a", "m", " ", "S", "n", "i", "p", "p", "e", "t", "\n">>,
      <<"#", "#", " ", "A", "r", "c", "h", "i", "t", "e", "c", "t", "u", "r",
        "e", " ", "D", "i", "a", "g", "r", "a", "m", "\n">>>>

\* The blank line and the opening fence of the pattern.
PythonOpen ==
    <<"\n", BQ, BQ, BQ, "p", "y", "t", "h", "o", "n", "\n">>

\* The closing fence and the blank line of the pattern.
FenceClose == Fence \o <<"\n", "\n">>

\* The lookahead of the pattern: the next section header.
NextHeader == <<"\n", "#", "#", " ">>

ImagesPrefix ==
    <<"d", "o", "c", "s", "/", "i", "m", "a", "g", "e", "s", "/">>

DiagramsPrefix ==
    <<"d", "i", "a", "g", "r", "a", "m", "s", "/">>

PngSuffix == <<".", "p", "n", "g">>

PySuffix == <<".", "p", "y">>

\* A line of text longer than the part of after_code that is looked at.
LongLine == [k \in 1..(CheckedChars + 1) |-> IF k <= CheckedChars THEN "t" ELSE "\n"]

RcpBlocks ==
    {DiagramHeaders[1] \o PythonOpen,
     DiagramHeaders[2] \o PythonOpen,
     DiagramHeaders[2] \o PythonOpen
         \o <<"#", " ", "d", "i", "a", "g", "r", "a", "m", "s", "/", "c", ".",
              "p", "y", "\n">> \o FenceClose,
     <<"p", "l", "t", ".", "s", "a", "v", "e", "f", "i", "g", "(", "'", "d",
       "o", "c", "s", "/", "i", "m", "a", "g", "e", "s", "/", "a", "_", "b",
       ".", "p", "n", "g", "'", ")", "\n">> \o FenceClose,
     <<"x", " ", "=", " ", "1", "\n">> \o FenceClose,
     <<"!", "[", "A", " ", "B", " ", "A", "r", "c", "h", "i", "t", "e", "c",
       "t", "u", "r", "e", "]", "(", "d", "o", "c", "s", "/", "i", "m", "a",
       "g", "e", "s", "/", "a", "_", "b", ".", "p", "n", "g", ")", "\n">>,
     LongLine \o
     <<"!", "[", "A", " ", "B", " ", "A", "r", "c", "h", "i", "t", "e", "c",
       "t", "u", "r", "e", "]", "(", "d", "o", "c", "s", "/", "i", "m", "a",
       "g", "e", "s", "/", "a", "_", "b", ".", "p", "n", "g", ")", "\n">>,
     <<"\n", "#", "#", " ", "N", "\n">>,
     <<"c", ".", "p", "n", "g", "\n">>}

RcpInputs == {Flatten(bs) : bs \in SeqUpTo(RcpBlocks, MaxBlocks)}

\* The first position at or after p where w starts, or 0.
IndexOf(t, w, p) ==
    LET S == {q \in p..(Len(t) - Len(w) + 1) : HasPrefixAt(t, q, w)}
    IN  IF S = {} THEN 0 ELSE CHOOSE q \in S : \A r \in S : q <= r

Contains(t, w) == IndexOf(t, w, 1) # 0

\* re.search(prefix(\w+)suffix, t): group 1 of the leftmost match, or the
\* empty text when there is none (\w+ is greedy and the suffix starts with a
\* character that is not a word character, so the group is the whole run).
SearchWord(t, prefix, suffix) ==
    LET S == {p \in 1..Len(t) :
                 /\ HasPrefixAt(t, p, prefix)
                 /\ SkipWord(t, p + Len(prefix)) > p + Len(prefix)
                 /\ HasPrefixAt(t, SkipWord(t, p + Len(prefix)), suffix)}
    IN  IF S = {} THEN <<>>
        ELSE LET p == CHOOSE q \in S : \A r \in S : q <= r
             IN  SubSeq(t, p + Len(prefix), SkipWord(t, p + Len(prefix)) - 1)

\* The empty text stands for None.
extract_pattern_name_from_code(code_block) ==
    IF SearchWord(code_block, ImagesPrefix, PngSuffix) # <<>>
    THEN SearchWord(code_block, ImagesPrefix, PngSuffix)
    ELSE SearchWord(code_block, DiagramsPrefix, PySuffix)

\* str.title(): a letter after a letter in lower case, any other letter in
\* upper case.
Title(t) ==
    [k \in 1..Len(t) |->
        IF k > 1 /\ t[k - 1] \in Letters THEN Lower(t[k]) ELSE UpperChar(t[k])]

Min(a, b) == IF a <= b THEN a ELSE b

png_ref(pattern_name) ==
    <<"!", "[">> \o Title(ReplaceAll(pattern_name, <<"_">>, <<" ">>))
    \o <<" ", "A", "r", "c", "h", "i", "t", "e", "c", "t", "u", "r", "e",
         "]", "(", "d", "o", "c", "s", "/", "i", "m", "a", "g", "e", "s", "/">>
    \o pattern_name \o PngSuffix \o <<")", "\n", "\n">>

\* A mutant of replace_diagram_section: the reference is added whether or
\* not the section has it.
replace_diagram_section_always(header, python_code, after_code) ==
    IF extract_pattern_name_from_code(python_code) = <<>>
    THEN header \o <<"\n", "\n">> \o after_code
    ELSE header \o <<"\n", "\n">>
         \o png_ref(extract_pattern_name_from_code(python_code)) \o after_code

\* The value returned for a match with these three groups.
replace_diagram_section(header, python_code, after_code) ==
    LET pattern_name == extract_pattern_name_from_code(python_code)
    IN  IF pattern_name = <<>>
        THEN header \o <<"\n", "\n">> \o after_code
        ELSE IF Contains(SubSeq(after_code, 1, Min(CheckedChars, Len(after_code))),
                         pattern_name \o PngSuffix)
        THEN header \o <<"\n", "\n">> \o after_code
        ELSE header \o <<"\n", "\n">> \o png_ref(pattern_name) \o after_code

\* The header that starts at p, or the empty text.
HeaderAt(t, p) ==
    IF HasPrefixAt(t, p, DiagramHeaders[1]) THEN DiagramHeaders[1]
    ELSE IF HasPrefixAt(t, p, DiagramHeaders[2]) THEN DiagramHeaders[2]
    ELSE <<>>

\* The pattern matches at p: a header, the opening fence, and a closing
\* fence somewhere after it (the two lazy groups then always match).
SectionAt(t, p) ==
    /\ HeaderAt(t, p) # <<>>
    /\ HasPrefixAt(t, p + Len(HeaderAt(t, p)), PythonOpen)
    /\ IndexOf(t, FenceClose, p + Len(HeaderAt(t, p)) + Len(PythonOpen)) # 0

\* The match at p: its three groups and the position after it.
SectionMatch(t, p) ==
    LET header == HeaderAt(t, p)
        code == p + Len(header) + Len(PythonOpen)
        close == IndexOf(t, FenceClose, code)
        after == close + Len(FenceClose)
        end == IF IndexOf(t, NextHeader, after) # 0
               THEN IndexOf(t, NextHeader, after) ELSE Len(t) + 1
    IN  [start |-> p, header |-> header,
         python_code |-> SubSeq(t, code, close - 1),
         after_code |-> SubSeq(t, after, end - 1), end |-> end]

\* The start of the leftmost match at or after p, or 0.
NextSection(t, p) ==
    LET S == {q \in p..Len(t) : SectionAt(t, q)}
    IN  IF S = {} THEN 0 ELSE CHOOSE q \in S : \A r \in S : q <= r

RECURSIVE CountOf(_, _, _)
\* len(re.findall(w, t)) for a literal w, from position p.
CountOf(t, w, p) ==
    IF IndexOf(t, w, p) = 0 THEN 0
    ELSE 1 + CountOf(t, w, IndexOf(t, w, p) + Len(w))

\* The first position at or after p, on the line of p, where w starts, or 0
\* (a lazy .*? followed by the literal w).
IndexOnLine(t, w, p) ==
    LET q == IndexOf(t, w, p)
    IN  IF q # 0 /\ \A k \in p..(q - 1) : t[k] # "\n" THEN q ELSE 0

\* The end of the match of !\[.*?\]\(docs/images/.*?\.png\) that starts at
\* p, or 0.
PngRefEnd(t, p) ==
    LET mid == <<"]", "(">> \o ImagesPrefix
        tail == PngSuffix \o <<")">>
        S == {q \in (p + 2)..Len(t) :
                 /\ HasPrefixAt(t, q, mid)
                 /\ \A k \in (p + 2)..(q - 1) : t[k] # "\n"
                 /\ IndexOnLine(t, tail, q + Len(mid)) # 0}
    IN  IF ~HasPrefixAt(t, p, <<"!", "[">>) \/ S = {} THEN 0
        ELSE LET q == CHOOSE q \in S : \A r \in S : q <= r
             IN  IndexOnLine(t, tail, q + Len(mid)) + Len(tail)

RECURSIVE CountPngRefs(_, _)
\* len(re.findall(...)) of that pattern, from position p.
CountPngRefs(t, p) ==
    LET S == {q \in p..Len(t) : PngRefEnd(t, q) # 0}
    IN  IF S = {} THEN 0
        ELSE 1 + CountPngRefs(t, PngRefEnd(t, CHOOSE q \in S : \A r \in S : q <= r))

InitRcp ==
    /\ rcp \in {[pc |-> "read", master_output |-> t, content |-> <<>>,
                 pos |-> 1, match |-> <<>>, returned |-> <<>>,
                 sections_replaced |-> 0, modified_content |-> <<>>,
                 master_output_with_png |-> NoFile,
                 remaining_python |-> 0, png_refs |-> 0] : t \in RcpInputs}
    /\ OthersOff_rcp

RcpRead ==
    /\ rcp.pc = "read"
    /\ rcp' = [rcp EXCEPT !.pc = "sub", !.content = rcp.master_output]
    /\ UNCHANGED Others_rcp

\* re.sub finds the next match and calls replace_diagram_section on it.
RcpReplace ==
    /\ rcp.pc = "sub"
    /\ NextSection(rcp.content, rcp.pos) # 0
    /\ LET m == SectionMatch(rcp.content, NextSection(rcp.content, rcp.pos))
           r == replace_diagram_section(m.header, m.python_code, m.after_code)
       IN  rcp' = [rcp EXCEPT
                      !.match = <<m.header, m.python_code, m.after_code>>,
                      !.returned = r,
                      !.sections_replaced = @ + 1,
                      !.modified_content =
                          @ \o SubSeq(rcp.content, rcp.pos, m.start - 1) \o r,
                      !.pos = m.end]
    /\ UNCHANGED Others_rcp

\* No further match: re.sub returns, with the rest of the text copied.
RcpSubDone ==
    /\ rcp.pc = "sub"
    /\ NextSection(rcp.content, rcp.pos) = 0
    /\ rcp' = [rcp EXCEPT
                  !.pc = "write",
                  !.modified_content =
                      @ \o SubSeq(rcp.content, rcp.pos, Len(rcp.content))]
    /\ UNCHANGED Others_rcp

RcpWrite ==
    /\ rcp.pc = "write"
    /\ rcp' = [rcp EXCEPT !.pc = "count",
                          !.master_output_with_png = rcp.modified_content]
    /\ UNCHANGED Others_rcp

RcpCount ==
    /\ rcp.pc = "count"
    /\ rcp' = [rcp EXCEPT
                  !.pc = "done",
                  !.remaining_python =
                      CountOf(rcp.modified_content, Tail(PythonOpen), 1) ,
                  !.png_refs = CountPngRefs(rcp.modified_content, 1)]
    /\ UNCHANGED Others_rcp

NextRcp == RcpRead \/ RcpReplace \/ RcpSubDone \/ RcpWrite \/ RcpCount

SpecRcp == InitRcp /\ [][NextRcp]_vars

\* The words w of code such that prefix, w, suffix stand in code one after
\* the other, as pairs of the first and last position of w.
WordsIn(code, prefix, suffix) ==
    UNION {{<<p, e>> : e \in {e \in p..Len(code) :
                                /\ \A k \in p..e : IsWord(code[k])
                                /\ HasPrefixAt(code, e + 1, suffix)}} :
           p \in {p \in (Len(prefix) + 1)..Len(code) :
                     HasPrefixAt(code, p - Len(prefix), prefix)}}

\* The pattern name a code block carries: the name of the first image under
\* docs/images, else of the first script under diagrams; empty if neither.
PatternNameIn(code) ==
    LET First(S) == CHOOSE w \in S : \A v \in S : w[1] <= v[1]
        png == WordsIn(code, ImagesPrefix, PngSuffix)
        py == WordsIn(code, DiagramsPrefix, PySuffix)
    IN  IF png # {} THEN SubSeq(code, First(png)[1], First(png)[2])
        ELSE IF py # {} THEN SubSeq(code, First(py)[1], First(py)[2])
        ELSE <<>>

\* The step replaces one matched section.
SectionReplaced == rcp.pc = "sub" /\ rcp'.pc = "sub"

\* What a step that replaces a section does, when the reference is looked
\* for in the first limit characters of the text after the code block: the
\* text up to the section is copied, and the section becomes its header,
\* the reference if it is due, and the text after the code block.
SectionStep(limit) ==
    SectionReplaced =>
        LET header == rcp'.match[1]
            code == rcp'.match[2]
            after == rcp'.match[3]
            matched == Len(header) + Len(PythonOpen) + Len(code)
                       + Len(FenceClose) + Len(after)
            name == PatternNameIn(code)
            due == /\ name # <<>>
                   /\ ~Contains(SubSeq(after, 1, Min(limit, Len(after))),
                                name \o PngSuffix)
            reference == <<"!", "[">> \o Title(ReplaceAll(name, <<"_">>, <<" ">>))
                         \o <<" ", "A", "r", "c", "h", "i", "t", "e", "c", "t",
                           "u", "r", "e", "]", "(", "d", "o", "c", "s", "/",
                           "i", "m", "a", "g", "e", "s", "/">>
                         \o name \o PngSuffix \o <<")">>
        IN  /\ rcp'.returned =
                  header \o <<"\n", "\n">>
                  \o (IF due THEN reference \o <<"\n", "\n">> ELSE <<>>)
                  \o after
            /\ rcp'.modified_content =
                  rcp.modified_content
                  \o SubSeq(rcp.content, rcp.pos, rcp'.pos - matched - 1)
                  \o rcp'.returned
            /\ rcp'.sections_replaced = rcp.sections_replaced + 1

\* C11 as stated: for every matched diagram section the code block is
\* removed, and the PNG reference is inserted after the header exactly when
\* a pattern name can be extracted from the code and the text of the section
\* after the code block holds no reference to that PNG.
C11_ReferenceUnlessInSection ==
    [][SectionStep(Len(rcp'.match[3]))]_vars

\* C11 as amended: for every matched diagram section the code block is
\* removed, and the PNG reference is inserted after the header exactly when
\* a pattern name can be extracted from the code and the first 200
\* characters of the text after the code block do not hold the name of
\* that PNG.
C11_ReferenceUnlessInFirstChars ==
    [][SectionStep(CheckedChars)]_vars

\* A section with the pattern name a_b and no reference after its code
\* block has been replaced by its header and the reference.
C11_Witness ==
    /\ rcp.pc = "sub"
    /\ rcp.match # <<>>
    /\ PatternNameIn(rcp.match[2]) = <<"a", "_", "b">>
    /\ rcp.match[3] # <<>>
    /\ ~Contains(rcp.match[3], <<"a", "_", "b", ".", "p", "n", "g">>)
    /\ rcp.returned =
           rcp.match[1] \o <<"\n", "\n">>
           \o <<"!", "[", "A", " ", "B", " ", "A", "r", "c", "h", "i", "t",
               "e", "c", "t", "u", "r", "e", "]", "(", "d", "o", "c", "s",
               "/", "i", "m", "a", "g", "e", "s", "/", "a", "_", "b", ".",
               "p", "n", "g", ")", "\n", "\n">>
           \o rcp.match[3]

(***************************************************************************)
(* How-X-works/scripts/remove_python_scripts.py                            *)
(***************************************************************************)

\* The number of blocks of an input text.
MaxRpsBlocks == 4

PythonSnippetHeader ==
    <<"#", "#", "#", " ", "P", "y", "t", "h", "o", "n", " ", "A", "r", "c",
      "h", "i", "t", "e", "c", "t", "u", "r", "e", " ", "D", "i", "a", "g",
      "r", "a", "m", " ", "S", "n", "i", "p", "p", "e", "t">>

ArchitectureHeader ==
    <<"#", "#", "#", " ", "A", "r", "c", "h", "i", "t", "e", "c", "t", "u",
      "r", "e", " ", "D", "i", "a", "g", "r", "a", "m">>

\* The literal parts of the pattern, in order; lazy .*? groups that match
\* any characters, line ends included, stand between them.
RpsLiterals ==
    <<PythonSnippetHeader \o <<"\n", "\n", "!", "[">>,
      <<"]", "(">>,
      <<")", "\n", "\n", "*", "F", "i", "g", "u", "r", "e", ":">>,
      <<"*", "\n", "\n">> \o Fence \o <<"p", "y", "t", "h", "o", "n", "\n", "#">>,
      Fence>>

RpsBlocks ==
    {PythonSnippetHeader \o <<"\n", "\n">>
         \o <<"!", "[", "a", "]", "(", "p", ".", "p", "n", "g", ")", "\n",
              "\n">>
         \o <<"*", "F", "i", "g", "u", "r", "e", ":", " ", "a", "*", "\n",
              "\n">>,
     PythonSnippetHeader \o <<"\n", "\n">>,
     <<"!", "[", "a", "]", "(", "p", ".", "p", "n", "g", ")", "\n", "\n">>,
     <<"*", "F", "i", "g", "u", "r", "e", ":", " ", "a", "*", "\n", "\n">>,
     Fence \o <<"p", "y", "t", "h", "o", "n", "\n", "#", " ", "s", "\n", "x", " ",
       "=", " ", "1", "\n">> \o Fence \o <<"\n">>,
     Fence \o <<"p", "y", "t", "h", "o", "n", "\n", "x", " ", "=", " ", "1", "\n">> \o Fence \o <<"\n">>,
     <<"t", "\n">>}

RpsInputs == {Flatten(bs) : bs \in SeqUpTo(RpsBlocks, MaxRpsBlocks)}

RECURSIVE LiteralsFrom(_, _, _)
\* The positions where literals k.. of the pattern match from position p on,
\* each at its first occurrence after the one before (a lazy group gives
\* way to the first occurrence of what follows it, and whatever can follow a
\* later occurrence can follow the first); empty if one of them is missing.
LiteralsFrom(t, k, p) ==
    IF k > Len(RpsLiterals) THEN <<p>>
    ELSE IF IndexOf(t, RpsLiterals[k], p) = 0 THEN <<>>
    ELSE LET q == IndexOf(t, RpsLiterals[k], p)
             rest == LiteralsFrom(t, k + 1, q + Len(RpsLiterals[k]))
         IN  IF rest = <<>> THEN <<>> ELSE <<q>> \o rest

\* The pattern matches at p.
ScriptAt(t, p) ==
    /\ HasPrefixAt(t, p, RpsLiterals[1])
    /\ LiteralsFrom(t, 2, p + Len(RpsLiterals[1])) # <<>>

\* The start of the leftmost match at or after p, or 0.
NextScript(t, p) ==
    LET S == {q \in p..Len(t) : ScriptAt(t, q)}
    IN  IF S = {} THEN 0 ELSE CHOOSE q \in S : \A r \in S : q <= r

\* Group 1 of the match at p (it ends with the '*' that closes the caption)
\* and the position after the match.
ScriptMatch(t, p) ==
    LET at == LiteralsFrom(t, 2, p + Len(RpsLiterals[1]))
    IN  [start |-> p, group1 |-> SubSeq(t, p, at[3]), end |-> at[5]]

replace_func(group1) ==
    ReplaceAll(group1, PythonSnippetHeader, ArchitectureHeader)

InitRps ==
    /\ rps \in {[pc |-> "read", master_output |-> t, content |-> <<>>,
                 pos |-> 1, new_content |-> <<>>, old_size |-> 0,
                 new_size |-> 0, saved |-> 0] : t \in RpsInputs}
    /\ OthersOff_rps

RpsRead ==
    /\ rps.pc = "read"
    /\ rps' = [rps EXCEPT !.pc = "sub", !.content = rps.master_output]
    /\ UNCHANGED Others_rps

\* re.sub finds the next match and calls replace_func on it.
RpsReplace ==
    /\ rps.pc = "sub"
    /\ NextScript(rps.content, rps.pos) # 0
    /\ LET m == ScriptMatch(rps.content, NextScript(rps.content, rps.pos))
       IN  rps' = [rps EXCEPT
                      !.new_content =
                          @ \o SubSeq(rps.content, rps.pos, m.start - 1)
                            \o replace_func(m.group1),
                      !.pos = m.end]
    /\ UNCHANGED Others_rps

\* No further match: re.sub returns, with the rest of the text copied.
RpsSubDone ==
    /\ rps.pc = "sub"
    /\ NextScript(rps.content, rps.pos) = 0
    /\ rps' = [rps EXCEPT
                  !.pc = "write",
                  !.new_content =
                      @ \o SubSeq(rps.content, rps.pos, Len(rps.content))]
    /\ UNCHANGED Others_rps

\* The file is written back and the sizes are printed.
RpsWrite ==
    /\ rps.pc = "write"
    /\ rps' = [rps EXCEPT !.pc = "done",
                          !.master_output = rps.new_content,
                          !.old_size = Len(rps.content),
                          !.new_size = Len(rps.new_content),
                          !.saved = Len(rps.content) - Len(rps.new_content)]
    /\ UNCHANGED Others_rps

NextRps == RpsRead \/ RpsReplace \/ RpsSubDone \/ RpsWrite

SpecRps == InitRps /\ [][NextRps]_vars

\* An image reference on a line of its own.
ImageLine(l) ==
    /\ HasPrefixAt(l, 1, <<"!", "[">>)
    /\ Contains(l, <<"]", "(">>)
    /\ l[Len(l)] = ")"

\* A figure caption on a line of its own.
CaptionLine(l) ==
    /\ HasPrefixAt(l, 1, <<"*", "F", "i", "g", "u", "r", "e", ":">>)
    /\ Len(l) > 8
    /\ l[Len(l)] = "*"

\* Line k of ls is the closing fence of the code block that holds line i.
ClosesAt(ls, i, k) ==
    /\ k > i
    /\ k <= Len(ls)
    /\ ls[k] = Fence
    /\ \A j \in i..(k - 1) : ~Contains(ls[j], Fence)

\* A diagram section starts at line i of ls: the header, a blank line, an
\* image reference, a blank line, a caption, a blank line, and a python
\* block whose first line starts with '#'.
DiagramSectionAt(ls, i) ==
    /\ i + 7 <= Len(ls)
    /\ ls[i] = PythonSnippetHeader
    /\ ls[i + 1] = <<>>
    /\ ImageLine(ls[i + 2])
    /\ ls[i + 3] = <<>>
    /\ CaptionLine(ls[i + 4])
    /\ ls[i + 5] = <<>>
    /\ ls[i + 6] = Fence \o <<"p", "y", "t", "h", "o", "n">>
    /\ HasPrefixAt(ls[i + 7], 1, <<"#">>)
    /\ \E k \in (i + 8)..Len(ls) : ClosesAt(ls, i + 7, k)

RECURSIVE ScriptsRemoved(_, _)
\* The lines from line i of ls on, with every diagram section reduced to
\* the renamed header, the image reference and the caption, and every other
\* line as it is.
ScriptsRemoved(ls, i) ==
    IF i > Len(ls) THEN <<>>
    ELSE IF DiagramSectionAt(ls, i)
    THEN <<ArchitectureHeader, <<>>, ls[i + 2], <<>>, ls[i + 4]>>
         \o ScriptsRemoved(ls, 1 + CHOOSE k \in (i + 8)..Len(ls) :
                                       ClosesAt(ls, i + 7, k))
    ELSE <<ls[i]>> \o ScriptsRemoved(ls, i + 1)

\* C12: when the script is done, master_output.md holds the old content
\* with every diagram section (header, blank line, image reference, blank
\* line, caption, blank line, python block that starts with '#') reduced to
\* the renamed header, the image reference and the caption, all other text
\* is unchanged, and the new content is no longer than the old one.
C12_ScriptsRemovedImagesKept ==
    rps.pc = "done" =>
        /\ rps.master_output = JoinLines(ScriptsRemoved(SplitLines(rps.content), 1))
        /\ Len(rps.master_output) <= Len(rps.content)

(***************************************************************************)
(* replace_ascii_diagrams_with_images of generate_diagrams.py and of       *)
(* javascript-and-design/generate_diagrams.py                              *)
(***************************************************************************)

\* The number of chunks of an input file.
MaxChunks == 4

\* range(i, min(i + 20, len(lines)))
LookAheadLines == 20

\* The two scripts.
RootScript == "generate_diagrams.py"

DesignScript == "javascript-and-design/generate_diagrams.py"

\* The box-drawing characters of the first list, by code point.
BoxChars ==
    {"U+250C", "U+2502", "U+251C", "U+2514", "U+2500", "U+2510", "U+2518",
     "U+2524", "U+252C", "U+2534"}

\* The list of the second loop has one character more.
BoxCharsOverview == BoxChars \cup {"U+253C"}

\* primary_insertions of the javascript-and-design script, as pairs of a
\* heading and a diagram file; the first five are those of the other script.
AllInsertions ==
    <<
      <<<<"#", " ", "V", "i", "r", "t", "u", "a", "l", "i", "z", "e", "d",
          " ", "I", "n", "f", "i", "n", "i", "t", "e", " ", "L", "i", "s",
          "t", " ", "w", "i", "t", "h", " ", "D", "y", "n", "a", "m", "i",
          "c", " ", "H", "e", "i", "g", "h", "t", "s">>,
        <<"v", "i", "r", "t", "u", "a", "l", "l", "i", "s", "t", "-", "a",
          "r", "c", "h", "i", "t", "e", "c", "t", "u", "r", "e", ".", "p",
          "n", "g">>>>,
      <<<<"#", " ", "H", "i", "g", "h", "-", "F", "i", "d", "e", "l", "i",
          "t", "y", " ", "P", "i", "x", "e", "l", "-", "P", "e", "r", "f",
          "e", "c", "t", " ", "Z", "o", "o", "m", "a", "b", "l", "e", " ",
          "C", "a", "n", "v", "a", "s">>,
        <<"c", "a", "n", "v", "a", "s", "-", "a", "r", "c", "h", "i", "t",
          "e", "c", "t", "u", "r", "e", ".", "p", "n", "g">>>>,
      <<<<"#", " ", "R", "e", "a", "c", "t", "i", "v", "e", " ", "F", "o",
          "r", "m", "u", "l", "a", "s", " ", "E", "n", "g", "i", "n", "e",
          " ", "(", "S", "p", "r", "e", "a", "d", "s", "h", "e", "e", "t",
          "-", "l", "i", "k", "e", ")">>,
        <<"r", "e", "a", "c", "t", "i", "v", "e", "-", "e", "n", "g", "i",
          "n", "e", "-", "a", "r", "c", "h", "i", "t", "e", "c", "t", "u",
          "r", "e", ".", "p", "n", "g">>>>,
      <<<<"#", " ", "D", "O", "M", "-", "B", "a", "s", "e", "d", " ", "S",
          "p", "r", "e", "a", "d", "s", "h", "e", "e", "t", " ", "R", "e",
          "n", "d", "e", "r", "e", "r", " ", "(", "E", "x", "c", "e", "l",
          " ", "C", "l", "o", "n", "e", ")">>,
        <<"s", "p", "r", "e", "a", "d", "s", "h", "e", "e", "t", "-", "a",
          "r", "c", "h", "i", "t", "e", "c", "t", "u", "r", "e", ".", "p",
          "n", "g">>>>,
      <<<<"#", " ", "H", "i", "g", "h", "-", "V", "o", "l", "u", "m", "e",
          " ", "R", "e", "a", "l", "-", "T", "i", "m", "e", " ", "C", "h",
          "a", "r", "t", "s", " ", "w", "i", "t", "h", " ", "B", "a", "c",
          "k", "f", "i", "l", "l">>,
        <<"c", "h", "a", "r", "t", "s", "-", "a", "r", "c", "h", "i", "t",
          "e", "c", "t", "u", "r", "e", ".", "p", "n", "g">>>>,
      <<<<"#", " ", "C", "o", "n", "t", "e", "n", "t", "E", "d", "i", "t",
          "a", "b", "l", "e", " ", "R", "i", "c", "h", "-", "T", "e", "x",
          "t", " ", "E", "d", "i", "t", "o", "r", " ", "w", "i", "t", "h",
          " ", "U", "n", "d", "o", "/", "R", "e", "d", "o">>,
        <<"e", "d", "i", "t", "o", "r", "-", "a", "r", "c", "h", "i", "t",
          "e", "c", "t", "u", "r", "e", ".", "p", "n", "g">>>>,
      <<<<"#", " ", "B", "r", "o", "w", "s", "e", "r", "-", "N", "a", "t",
          "i", "v", "e", " ", "P", "D", "F", " ", "V", "i", "e", "w", "e",
          "r", " ", "w", "i", "t", "h", " ", "A", "n", "n", "o", "t", "a",
          "t", "i", "o", "n", "s">>,
        <<"p", "d", "f", "-", "a", "r", "c", "h", "i", "t", "e", "c", "t",
          "u", "r", "e", ".", "p", "n", "g">>>>
    >>

primary_insertions(script) ==
    SubSeq(AllInsertions, 1, IF script = RootScript THEN 5 ELSE 7)

ArchitectureOverview ==
    <<"*", "*", "A", "r", "c", "h", "i", "t", "e", "c", "t", "u", "r", "e",
      " ", "O", "v", "e", "r", "v", "i", "e", "w", "*", "*", ":">>

DiagramDir ==
    <<"d", "i", "a", "g", "r", "a", "m", "s">>

\* diagram_text for a diagram file.
diagram_text(diagram) ==
    <<"\n", "!", "[", "A", "r", "c", "h", "i", "t", "e", "c", "t", "u", "r",
      "e", " ", "D", "i", "a", "g", "r", "a", "m", "]", "(">>
    \o DiagramDir \o <<"/">> \o diagram \o <<")", "\n", "\n">>

\* The chunks input files are made of: two known headings, the overview
\* line, a blank line, a fence, a text line, a complete block of box
\* drawing, and a fence line that holds a box-drawing character.
RadChunks ==
    {<<AllInsertions[1][1] \o <<"\n">>>>,
     <<AllInsertions[2][1] \o <<"\n">>>>,
     <<ArchitectureOverview \o <<"\n">>>>,
     <<<<"\n">>>>,
     <<Fence \o <<"\n">>>>,
     <<<<"x", "\n">>>>,
     <<Fence \o <<"\n">>, <<"+", "U+253C", "+", "\n">>, Fence \o <<"\n">>>>,
     <<Fence \o <<"U+2500", "\n">>>>}

\* f.readlines() of the input files.
RadInputs == {Flatten(cs) : cs \in SeqUpTo(RadChunks, MaxChunks)}

\* line.strip().startswith of the fence
StartsFence(line) == HasPrefixAt(Strip(line), 1, Fence)

HasAny(line, chars) == \E p \in 1..Len(line) : line[p] \in chars

\* The diagram of the heading that line is, or the empty text.
DiagramOf(script, line) ==
    LET P == primary_insertions(script)
        S == {n \in 1..Len(P) : Strip(line) = P[n][1]}
    IN  IF S = {} THEN <<>> ELSE P[CHOOSE n \in S : \A m \in S : n <= m][2]

RECURSIVE is_ascii_diagram(_, _, _)
\* The first look-ahead, for j in range(j, end): a box-drawing character
\* before the next line that starts a fence.
is_ascii_diagram(lines, j, end) ==
    IF j >= end THEN FALSE
    ELSE IF HasAny(At(lines, j), BoxChars) THEN TRUE
    ELSE IF StartsFence(At(lines, j)) THEN FALSE
    ELSE is_ascii_diagram(lines, j + 1, end)

RECURSIVE SkipBlank(_, _)
\* while j < len(lines) and lines[j].strip() == '': j += 1
SkipBlank(lines, j) ==
    IF j < Len(lines) /\ Strip(At(lines, j)) = <<>>
    THEN SkipBlank(lines, j + 1) ELSE j

\* The index of the first line at or after k that starts a fence, or
\* len(lines).
ClosingFence(lines, k) ==
    LET S == {n \in k..(Len(lines) - 1) : StartsFence(At(lines, n))}
    IN  IF S = {} THEN Len(lines) ELSE CHOOSE n \in S : \A m \in S : n <= m

\* The lines after the fence at j hold a box-drawing character before the
\* closing fence, which exists.
is_ascii_block(lines, j) ==
    /\ ClosingFence(lines, j + 1) < Len(lines)
    /\ \E n \in (j + 1)..(ClosingFence(lines, j + 1) - 1) :
          HasAny(At(lines, n), BoxCharsOverview)

\* modified_lines.append(lines[i]); copied records where the line went.
AppendLine(s, n) ==
    [s EXCEPT !.modified_lines = Append(@, At(s.lines, n)),
              !.copied = [@ EXCEPT ![n + 1] = Len(s.modified_lines) + 1]]

\* Skip the next line if it is blank, then insert the diagram.
InsertDiagram(s, diagram) ==
    LET blank == s.i + 1 < Len(s.lines) /\ Strip(At(s.lines, s.i + 1)) = <<>>
        t == IF blank THEN AppendLine([s EXCEPT !.i = @ + 1], s.i + 1) ELSE s
    IN  [t EXCEPT !.modified_lines = Append(@, diagram_text(diagram)),
                  !.inserted_count = @ + 1]

\* The check for a section heading, after the line is appended.
AtHeading(s, line) ==
    IF DiagramOf(s.script, line) = <<>> THEN s
    ELSE InsertDiagram([s EXCEPT !.current_section = DiagramOf(s.script, line)],
                       DiagramOf(s.script, line))

\* A mutant of RemoveBlock: the blank lines after the block stay.
RemoveBlockOnly(s) ==
    LET j == SkipBlank(s.lines, s.i + 1)
    IN  IF /\ j < Len(s.lines)
           /\ Strip(At(s.lines, j)) = Fence
           /\ is_ascii_block(s.lines, j)
        THEN [s EXCEPT !.i = ClosingFence(s.lines, j + 1),
                       !.removed_count = @ + 1]
        ELSE s

\* The code block of box drawing that follows the overview line is skipped,
\* with the blank lines after it.
RemoveBlock(s) ==
    LET j == SkipBlank(s.lines, s.i + 1)
    IN  IF /\ j < Len(s.lines)
           /\ Strip(At(s.lines, j)) = Fence
           /\ is_ascii_block(s.lines, j)
        THEN [s EXCEPT !.i = SkipBlank(s.lines, ClosingFence(s.lines, j + 1) + 1) - 1,
                       !.removed_count = @ + 1]
        ELSE s

\* The check for the overview line, after the check for a heading.
AtOverview(s, line) ==
    IF /\ ~s.in_code_block
       /\ s.current_section # <<>>
       /\ Strip(line) = ArchitectureOverview
    THEN IF s.script = RootScript
         THEN RemoveBlock(InsertDiagram(s, s.current_section))
         ELSE InsertDiagram(s, s.current_section)
    ELSE s

\* The rest of an iteration, from modified_lines.append(line) on.
CopyLine(s, line) ==
    LET t == AtOverview(AtHeading(AppendLine(s, s.i), line), line)
    IN  [t EXCEPT !.i = @ + 1]

\* One iteration of the while loop, on the local variables s.
LoopBody(s) ==
    LET line == At(s.lines, s.i)
    IN  IF ~StartsFence(line)
        THEN IF s.skip_until_code_end THEN [s EXCEPT !.i = @ + 1]
             ELSE CopyLine(s, line)
        ELSE IF s.script = DesignScript
        THEN CopyLine([s EXCEPT !.in_code_block = ~@], line)
        ELSE IF /\ ~s.in_code_block
                /\ s.current_section # <<>>
                /\ is_ascii_diagram(s.lines, s.i,
                                    Min(s.i + LookAheadLines, Len(s.lines)))
        THEN [s EXCEPT !.skip_until_code_end = TRUE,
                       !.removed_count = @ + 1,
                       !.i = @ + 1]
        ELSE IF s.in_code_block /\ s.skip_until_code_end
        THEN [s EXCEPT !.in_code_block = FALSE,
                       !.skip_until_code_end = FALSE,
                       !.i = @ + 1]
        ELSE IF s.skip_until_code_end
        THEN [s EXCEPT !.in_code_block = ~@, !.i = @ + 1]
        ELSE CopyLine([s EXCEPT !.in_code_block = ~@], line)

InitRad ==
    /\ rad \in {[pc |-> "read", script |-> sc, markdown_file |-> f,
                 lines |-> <<>>, copied |-> <<>>, current_section |-> <<>>,
                 modified_lines |-> <<>>, i |-> 0, inserted_count |-> 0,
                 removed_count |-> 0, in_code_block |-> FALSE,
                 skip_until_code_end |-> FALSE, output_file |-> NoFile] :
                sc \in {RootScript, DesignScript}, f \in RadInputs}
    /\ OthersOff_rad

\* The file is read; nothing is copied yet.
RadRead ==
    /\ rad.pc = "read"
    /\ rad' = [rad EXCEPT !.pc = "loop", !.lines = rad.markdown_file,
                          !.copied = [n \in 1..Len(rad.markdown_file) |-> 0]]
    /\ UNCHANGED Others_rad

RadLine ==
    /\ rad.pc = "loop"
    /\ rad.i < Len(rad.lines)
    /\ rad' = LoopBody(rad)
    /\ UNCHANGED Others_rad

\* f.writelines(modified_lines)
RadWrite ==
    /\ rad.pc = "loop"
    /\ rad.i >= Len(rad.lines)
    /\ rad' = [rad EXCEPT !.pc = "done",
                          !.output_file = Flatten(rad.modified_lines)]
    /\ UNCHANGED Others_rad

NextRad == RadRead \/ RadLine \/ RadWrite

SpecRad == InitRad /\ [][NextRad]_vars

\* The runs of generate_diagrams.py alone.
InitRadRoot == InitRad /\ rad.script = RootScript

SpecRadRoot == InitRadRoot /\ [][NextRad]_vars

\* The diagram file of the known heading that line n of the input is, or
\* the empty text.
HeadingFile(n) == DiagramOf(rad.script, rad.lines[n])

OverviewLine(n) == Strip(rad.lines[n]) = ArchitectureOverview

\* Line n of the input lies outside the fenced code blocks: an even number
\* of fence lines precede it.
OutsideFences(n) ==
    Cardinality({m \in 1..(n - 1) : FenceLine(rad.lines[m])}) % 2 = 0

HeadingsBefore(n) == {m \in 1..(n - 1) : HeadingFile(m) # <<>>}

\* The image reference for a diagram file, as an element of the output.
ImageReference(file) ==
    <<"\n", "!", "[", "A", "r", "c", "h", "i", "t", "e", "c", "t", "u", "r",
      "e", " ", "D", "i", "a", "g", "r", "a", "m", "]", "(">>
    \o <<"d", "i", "a", "g", "r", "a", "m", "s", "/">> \o file \o <<")", "\n", "\n">>

IsImageReference(e) ==
    HasPrefixAt(e, 1, <<"\n", "!", "[", "A", "r", "c", "h", "i", "t", "e", "c",
                     "t", "u", "r", "e", " ", "D", "i", "a", "g", "r", "a",
                     "m", "]", "(">>)

\* The blank line after line n of the input, if there is one, else n.
WithBlank(n) ==
    IF n < Len(rad.lines) /\ BlankLine(rad.lines[n + 1]) THEN n + 1 ELSE n

\* In the output, line n of the input and the blank line after it, if any,
\* are followed by the image reference for file.
ImageAfter(n, file) ==
    /\ rad.copied[n] # 0
    /\ rad.modified_lines[rad.copied[n]] = rad.lines[n]
    /\ WithBlank(n) # n =>
          /\ rad.copied[n + 1] = rad.copied[n] + 1
          /\ rad.modified_lines[rad.copied[n + 1]] = rad.lines[n + 1]
    /\ rad.copied[WithBlank(n)] + 1 <= Len(rad.modified_lines)
    /\ rad.modified_lines[rad.copied[WithBlank(n)] + 1] = ImageReference(file)

\* In the output, no image reference follows line n of the input or the
\* blank line after it.
NoImageAfter(n) ==
    \A m \in {n, WithBlank(n)} :
        /\ rad.copied[m] # 0
        /\ rad.copied[m] + 1 <= Len(rad.modified_lines)
        => ~IsImageReference(rad.modified_lines[rad.copied[m] + 1])

\* The overview line n gets an image: it is outside the code blocks and a
\* known heading comes before it.
OverviewDue(n) ==
    OverviewLine(n) /\ OutsideFences(n) /\ HeadingsBefore(n) # {}

LastHeadingFile(n) ==
    HeadingFile(CHOOSE m \in HeadingsBefore(n) : \A k \in HeadingsBefore(n) : k <= m)

\* C13: in both scripts, when the function is done, every line that is a
\* known section heading is followed (after the blank line that follows it,
\* if any) by one image reference with that heading's diagram file; every
\* '**Architecture Overview**:' line that is outside a fenced code block and
\* comes after a known heading is followed by one image reference with the
\* file of the last known heading before it; any other such line gets no
\* image; and no other image is inserted.
C13_ImagesAfterHeadingsAndOverviews ==
    rad.pc = "done" =>
        /\ \A n \in 1..Len(rad.lines) :
              /\ HeadingFile(n) # <<>> => ImageAfter(n, HeadingFile(n))
              /\ OverviewDue(n) => ImageAfter(n, LastHeadingFile(n))
              /\ OverviewLine(n) /\ ~OverviewDue(n) => NoImageAfter(n)
        /\ rad.inserted_count =
              Cardinality({n \in 1..Len(rad.lines) :
                              HeadingFile(n) # <<>> \/ OverviewDue(n)})
        /\ rad.inserted_count =
              Cardinality({e \in 1..Len(rad.modified_lines) :
                              IsImageReference(rad.modified_lines[e])})

\* The first line at or after n that is not blank, or the line after the
\* last.
NextNonBlank(n) ==
    CHOOSE m \in n..(Len(rad.lines) + 1) :
        /\ m = Len(rad.lines) + 1 \/ ~BlankLine(rad.lines[m])
        /\ \A k \in n..(m - 1) : BlankLine(rad.lines[k])

\* The line where the code block after the overview line n would open: the
\* first line that is not blank, after the blank line that is copied with
\* the overview line.
BlockStart(n) == NextNonBlank(WithBlank(n) + 1)

\* An unlabelled fence opens a code block there.
BlockAfter(n) ==
    /\ BlockStart(n) <= Len(rad.lines)
    /\ Strip(rad.lines[BlockStart(n)]) = Fence

\* The closing fence of that block, or 0.
BlockEnd(n) ==
    LET S == {k \in (BlockStart(n) + 1)..Len(rad.lines) : FenceLine(rad.lines[k])}
    IN  IF S = {} THEN 0 ELSE CHOOSE k \in S : \A m \in S : k <= m

\* The block is closed and holds a box-drawing character.
BoxDrawingBlock(n) ==
    /\ BlockAfter(n)
    /\ BlockEnd(n) # 0
    /\ \E m \in (BlockStart(n) + 1)..(BlockEnd(n) - 1) :
          \E p \in 1..Len(rad.lines[m]) :
              rad.lines[m][p] \in BoxCharsOverview

\* The scan is at an overview line inside a known section and outside the
\* code blocks, and does not skip it.
AtSectionOverview ==
    /\ rad.pc = "loop"
    /\ rad.script = RootScript
    /\ rad.i < Len(rad.lines)
    /\ OverviewLine(rad.i + 1)
    /\ ~rad.in_code_block
    /\ ~rad.skip_until_code_end
    /\ rad.current_section # <<>>

\* The step from an overview line that a block of box drawing follows: the
\* line, its blank line and the image are appended and nothing else, the
\* count grows by one, and the scan goes on, outside any code block, with
\* the first line that is not blank after the block.
BlockRemovedStep ==
    AtSectionOverview /\ BoxDrawingBlock(rad.i + 1) =>
        LET n == rad.i + 1
            next == NextNonBlank(BlockEnd(n) + 1)
        IN  /\ rad'.modified_lines =
                  rad.modified_lines
                  \o SubSeq(rad.lines, n, WithBlank(n))
                  \o <<ImageReference(rad.current_section)>>
            /\ rad'.removed_count = rad.removed_count + 1
            /\ rad'.i = next - 1
            /\ ~rad'.in_code_block
            /\ ~rad'.skip_until_code_end
            /\ rad'.pc = "loop"

\* The step from an overview line that another block follows: nothing is
\* removed, and the scan goes on with the line after the overview line and
\* its blank line.
BlockKeptStep ==
    AtSectionOverview /\ BlockAfter(rad.i + 1) /\ ~BoxDrawingBlock(rad.i + 1) =>
        /\ rad'.removed_count = rad.removed_count
        /\ rad'.i = WithBlank(rad.i + 1)
        /\ ~rad'.in_code_block
        /\ ~rad'.skip_until_code_end

\* A line the scan has passed is not copied later.
PassedLinesStay ==
    rad.pc = "loop" =>
        \A m \in 1..Len(rad.lines) : m <= rad.i => rad'.copied[m] = rad.copied[m]

\* The overview line n was copied with an image after it.
OverviewWithImage(n) ==
    /\ OverviewLine(n)
    /\ rad.copied[n] # 0
    /\ rad.copied[WithBlank(n)] + 1 <= Len(rad.modified_lines)
    /\ IsImageReference(rad.modified_lines[rad.copied[WithBlank(n)] + 1])

\* In the output, after each overview line that got an image: a block of
\* box drawing and the blank lines after it are absent, any other block is
\* there, every line as it was.
BlocksInOutput ==
    rad.pc = "done" =>
        \A n \in 1..Len(rad.lines) :
            OverviewWithImage(n) /\ BlockAfter(n) =>
                IF BoxDrawingBlock(n)
                THEN \A m \in BlockStart(n)..(NextNonBlank(BlockEnd(n) + 1) - 1) :
                        rad.copied[m] = 0
                ELSE \A m \in BlockStart(n)..(IF BlockEnd(n) = 0 THEN Len(rad.lines)
                                              ELSE BlockEnd(n)) :
                        /\ rad.copied[m] # 0
                        /\ rad.modified_lines[rad.copied[m]] = rad.lines[m]

DiagramNames(script) ==
    IF script = RootScript
    THEN <<"virtuallist-architecture", "canvas-architecture",
           "reactive-engine-architecture", "spreadsheet-architecture",
           "charts-architecture">>
    ELSE <<"virtuallist-architecture.png", "canvas-architecture.png",
           "charts-architecture.png", "spreadsheet-architecture.png",
           "reactive-engine-architecture.png", "editor-architecture.png",
           "pdf-architecture.png">>

\* The Markdown files of the working directory.
MarkdownPaths == {"input.md", "output.md"}

\* A Markdown file with a known heading and an overview line, and another
\* file.
MarkdownText ==
    AllInsertions[1][1] \o <<"\n">> \o ArchitectureOverview \o <<"\n">>

OtherText == <<"o", "l", "d", "\n">>

\* sys.argv[1:]
CommandLines ==
    {<<>>, <<"input.md">>, <<"input.md", "output.md">>, <<"input.md", "input.md">>}

\* A mutant of install_dependencies: the dot executable is not looked for.
install_dependencies_import_only(graphviz, dot) == graphviz

\* The value install_dependencies returns when the graphviz module can be
\* imported (graphviz) and the dot executable is found (dot).
install_dependencies(graphviz, dot) == graphviz /\ dot

RECURSIVE RunLoop(_)
\* The while loop of replace_ascii_diagrams_with_images, to its end.
RunLoop(s) == IF s.i >= Len(s.lines) THEN s ELSE RunLoop(LoopBody(s))

\* The text replace_ascii_diagrams_with_images writes for the text it reads.
ReplaceResult(script, text) ==
    Flatten(RunLoop([pc |-> "loop", script |-> script,
                     markdown_file |-> ReadLines(text),
                     lines |-> ReadLines(text),
                     copied |-> [n \in 1..Len(ReadLines(text)) |-> 0],
                     current_section |-> <<>>, modified_lines |-> <<>>,
                     i |-> 0, inserted_count |-> 0, removed_count |-> 0,
                     in_code_block |-> FALSE, skip_until_code_end |-> FALSE,
                     output_file |-> NoFile]).modified_lines)

\* A mutant of OutputPath: without a second argument the result goes to
\* output.md.
OutputPathFixed(argv) == IF Len(argv) > 1 THEN argv[2] ELSE "output.md"

\* output_file: the second argument, else the input file.
OutputPath(argv) == IF Len(argv) > 1 THEN argv[2] ELSE argv[1]

\* A mutant of Rendered: a diagram whose render call raised is counted too.
RenderedAlways(s, name, raised) ==
    [s EXCEPT !.n = @ + 1,
              !.generated = Append(@, name),
              !.images = IF raised THEN @ ELSE @ \cup {name},
              !.raised = IF raised THEN @ \cup {<<"render", name>>} ELSE @,
              !.printed = Append(@, <<IF raised THEN "Error rendering"
                                      ELSE "Generated", name>>)]

\* The render call for a diagram, which raised or returned.
Rendered(s, name, raised) ==
    IF raised
    THEN [s EXCEPT !.n = @ + 1,
                   !.raised = @ \cup {<<"render", name>>},
                   !.printed = Append(@, <<"Error rendering", name>>)]
    ELSE [s EXCEPT !.n = @ + 1,
                   !.generated = Append(@, name),
                   !.images = @ \cup {name},
                   !.printed = Append(@, <<"Generated", name>>)]

InitGd ==
    /\ gd \in {[pc |-> "start", script |-> sc, argv |-> a,
                graphviz |-> g, dot |-> d,
                files |-> [p \in MarkdownPaths |->
                              IF p = "input.md" THEN fin ELSE fout],
                files0 |-> [p \in MarkdownPaths |->
                               IF p = "input.md" THEN fin ELSE fout],
                diagrams |-> <<>>, n |-> 0, generated |-> <<>>,
                images |-> {}, raised |-> {}, printed |-> <<>>,
                opened_r |-> {}, opened_w |-> {}, status |-> -1] :
               sc \in {RootScript, DesignScript}, a \in CommandLines,
               g \in BOOLEAN, d \in BOOLEAN,
               fin \in {MarkdownText, NoFile}, fout \in {OtherText, NoFile}}
    /\ OthersOff_gd

\* install_dependencies returns False: main prints and returns.
GdMissingDependency ==
    /\ gd.pc = "start"
    /\ ~install_dependencies(gd.graphviz, gd.dot)
    /\ gd' = [gd EXCEPT
                 !.pc = "done",
                 !.printed = @ \o <<<<IF gd.graphviz
                                       THEN "WARNING: Graphviz system package not found."
                                       ELSE "ERROR: python3-graphviz not found.",
                                       "install">>>>,
                 !.status = IF gd.script = RootScript THEN 0 ELSE 1]
    /\ UNCHANGED Others_gd

GdDependenciesFound ==
    /\ gd.pc = "start"
    /\ install_dependencies(gd.graphviz, gd.dot)
    /\ gd' = [gd EXCEPT !.pc = "build"]
    /\ UNCHANGED Others_gd

\* The next create_* call of the dictionary: it returns the diagram, or
\* catches an exception, prints and returns None.
GdCreate ==
    /\ gd.pc = "build"
    /\ \E raised \in BOOLEAN :
          LET name == DiagramNames(gd.script)[Len(gd.diagrams) + 1]
              last == Len(gd.diagrams) + 1 = Len(DiagramNames(gd.script))
          IN  gd' = [gd EXCEPT
                        !.diagrams = Append(@, ~raised),
                        !.raised = IF raised THEN @ \cup {<<"create", name>>} ELSE @,
                        !.printed = IF raised
                                    THEN Append(@, <<"Error creating", name>>)
                                    ELSE @,
                        !.pc = IF last THEN "render" ELSE "build"]
    /\ UNCHANGED Others_gd

\* The loop over the dictionary, at a diagram that is None.
GdSkipNone ==
    /\ gd.pc = "render"
    /\ gd.n < Len(gd.diagrams)
    /\ ~gd.diagrams[gd.n + 1]
    /\ gd' = [gd EXCEPT !.n = @ + 1]
    /\ UNCHANGED Others_gd

\* The loop over the dictionary, at a diagram: render returns or raises.
GdRender ==
    /\ gd.pc = "render"
    /\ gd.n < Len(gd.diagrams)
    /\ gd.diagrams[gd.n + 1]
    /\ \E raised \in BOOLEAN :
          gd' = Rendered(gd, DiagramNames(gd.script)[gd.n + 1], raised)
    /\ UNCHANGED Others_gd

\* The count is printed.
GdReport ==
    /\ gd.pc = "render"
    /\ gd.n = Len(gd.diagrams)
    /\ gd' = [gd EXCEPT !.pc = "markdown",
                        !.printed = Append(@, <<"diagrams", Len(gd.generated)>>)]
    /\ UNCHANGED Others_gd

\* No argument: no Markdown file is processed.
GdNoMarkdown ==
    /\ gd.pc = "markdown"
    /\ Len(gd.argv) = 0
    /\ gd' = [gd EXCEPT !.pc = "done", !.status = 0]
    /\ UNCHANGED Others_gd

\* open(markdown_file) raises FileNotFoundError, which nothing catches.
GdNoInput ==
    /\ gd.pc = "markdown"
    /\ Len(gd.argv) > 0
    /\ gd.files[gd.argv[1]] = NoFile
    /\ gd' = [gd EXCEPT !.pc = "crashed", !.status = 1]
    /\ UNCHANGED Others_gd

\* replace_ascii_diagrams_with_images(markdown_file, output_file)
GdMarkdown ==
    /\ gd.pc = "markdown"
    /\ Len(gd.argv) > 0
    /\ gd.files[gd.argv[1]] # NoFile
    /\ gd' = [gd EXCEPT
                 !.pc = "done",
                 !.status = 0,
                 !.opened_r = @ \cup {gd.argv[1]},
                 !.opened_w = @ \cup {OutputPath(gd.argv)},
                 !.files = [@ EXCEPT ![OutputPath(gd.argv)] =
                               ReplaceResult(gd.script, gd.files[gd.argv[1]])]]
    /\ UNCHANGED Others_gd

NextGd ==
    \/ GdMissingDependency
    \/ GdDependenciesFound
    \/ GdCreate
    \/ GdSkipNone
    \/ GdRender
    \/ GdReport
    \/ GdNoMarkdown
    \/ GdNoInput
    \/ GdMarkdown

SpecGd == InitGd /\ [][NextGd]_vars

\* C15: in both scripts, when the graphviz module cannot be imported or the
\* dot executable is not found, main prints the remediation message and
\* returns: no diagram is built or rendered and no Markdown file is read or
\* written, whatever the arguments.
C15_NothingDoneWithoutGraphviz ==
    ~gd.graphviz \/ ~gd.dot =>
        /\ gd.pc \in {"start", "done"}
        /\ gd.diagrams = <<>>
        /\ gd.generated = <<>>
        /\ gd.images = {}
        /\ gd.opened_r = {}
        /\ gd.opened_w = {}
        /\ gd.files = gd.files0
        /\ gd.pc = "done" =>
              /\ Len(gd.printed) = 1
              /\ gd.printed[1][2] = "install"

\* A run without the dot executable, with both paths given and the input
\* file there, has ended.
C15_Witness ==
    /\ gd.pc = "done"
    /\ gd.graphviz
    /\ ~gd.dot
    /\ gd.argv = <<"input.md", "output.md">>
    /\ gd.files0["input.md"] # NoFile
    /\ gd.printed # <<>>

\* The diagrams of the script for which a create or render call raised.
FailedDiagrams ==
    {name \in {DiagramNames(gd.script)[k] : k \in 1..Len(DiagramNames(gd.script))} :
        <<"create", name>> \in gd.raised \/ <<"render", name>> \in gd.raised}

RECURSIVE Without(_, _)
\* The sequence names without the members of S.
Without(names, S) ==
    IF names = <<>> THEN <<>>
    ELSE IF Head(names) \in S THEN Without(Tail(names), S)
    ELSE <<Head(names)>> \o Without(Tail(names), S)

\* C18: once the loop over the diagrams has ended, every diagram for which
\* no call raised is rendered, every diagram for which a call raised is
\* skipped with a message, and the result (the list generated, whose length
\* is the success count) holds exactly the diagrams whose render call
\* returned.
C18_FailuresIsolated ==
    gd.pc \in {"markdown", "done", "crashed"} /\ gd.diagrams # <<>> =>
        /\ gd.n = Len(DiagramNames(gd.script))
        /\ gd.generated = Without(DiagramNames(gd.script), FailedDiagrams)
        /\ gd.images = {gd.generated[k] : k \in 1..Len(gd.generated)}
        /\ \A name \in FailedDiagrams :
              \E m \in 1..Len(gd.printed) :
                  /\ gd.printed[m][1] \in {"Error creating", "Error rendering"}
                  /\ gd.printed[m][2] = name
        /\ \E m \in 1..Len(gd.printed) :
              gd.printed[m] = <<"diagrams", Len(gd.generated)>>

\* A run in which one diagram could not be built, another could not be
\* rendered and a later one was rendered.
C18_Witness ==
    /\ gd.pc = "done"
    /\ \E a, b, c \in 1..Len(DiagramNames(gd.script)) :
          /\ a < c
          /\ b < c
          /\ <<"create", DiagramNames(gd.script)[a]>> \in gd.raised
          /\ <<"render", DiagramNames(gd.script)[b]>> \in gd.raised
          /\ DiagramNames(gd.script)[c] \in gd.images

(***************************************************************************)
(* main of javascript-and-design/add_newlines_before_lists.py              *)
(***************************************************************************)

RECURSIVE AddNewlinesFrom(_, _, _, _)
\* The loop of add_newlines_before_lists from index i on.
AddNewlinesFrom(lines, i, in_code_block, result) ==
    IF i >= Len(lines) THEN result
    ELSE LET line == At(lines, i)
         IN  IF is_code_fence(line)
             THEN AddNewlinesFrom(lines, i + 1, ~in_code_block, Append(result, line))
             ELSE IF in_code_block
             THEN AddNewlinesFrom(lines, i + 1, in_code_block, Append(result, line))
             ELSE IF /\ is_list_item(line)
                     /\ i > 0
                     /\ ~is_blank_line(At(lines, i - 1))
                     /\ ~is_list_item(At(lines, i - 1))
             THEN AddNewlinesFrom(lines, i + 1, in_code_block,
                                  result \o <<<<>>, line>>)
             ELSE AddNewlinesFrom(lines, i + 1, in_code_block, Append(result, line))

add_newlines_before_lists(content) ==
    JoinLines(AddNewlinesFrom(SplitLines(content), 0, FALSE, <<>>))

\* A file with a list right after a paragraph.
ListText == <<"a", "\n", "-", " ", "b", "\n">>

InitAnm ==
    /\ anm \in {[pc |-> "start", argv |-> a,
                 files |-> [p \in MarkdownPaths |->
                               IF p = "input.md" THEN fin ELSE fout],
                 files0 |-> [p \in MarkdownPaths |->
                                IF p = "input.md" THEN fin ELSE fout],
                 printed |-> <<>>, opened_r |-> {}, opened_w |-> {},
                 status |-> -1] :
                a \in CommandLines, fin \in {ListText, NoFile},
                fout \in {OtherText, NoFile}}
    /\ OthersOff_anm

\* len(sys.argv) < 2: the usage is printed and the script exits with 1.
AnmUsage ==
    /\ anm.pc = "start"
    /\ Len(anm.argv) = 0
    /\ anm' = [anm EXCEPT !.pc = "done", !.status = 1,
                          !.printed = Append(@, "Usage")]
    /\ UNCHANGED Others_anm

\* open(input_file) raises FileNotFoundError, which nothing catches.
AnmNoInput ==
    /\ anm.pc = "start"
    /\ Len(anm.argv) > 0
    /\ anm.files[anm.argv[1]] = NoFile
    /\ anm' = [anm EXCEPT !.pc = "crashed", !.status = 1,
                          !.printed = Append(@, "Reading")]
    /\ UNCHANGED Others_anm

\* process_file(input_file, output_file)
AnmProcess ==
    /\ anm.pc = "start"
    /\ Len(anm.argv) > 0
    /\ anm.files[anm.argv[1]] # NoFile
    /\ anm' = [anm EXCEPT
                  !.pc = "done",
                  !.status = 0,
                  !.printed = Append(@, "Reading"),
                  !.opened_r = @ \cup {anm.argv[1]},
                  !.opened_w = @ \cup {OutputPath(anm.argv)},
                  !.files = [@ EXCEPT ![OutputPath(anm.argv)] =
                                add_newlines_before_lists(anm.files[anm.argv[1]])]]
    /\ UNCHANGED Others_anm

NextAnm == AnmUsage \/ AnmNoInput \/ AnmProcess

\* The scripts that take file arguments, one run of one of them.
InitCli == InitGd \/ InitAnm

NextCli == NextGd \/ NextAnm

SpecCli == InitCli /\ [][NextCli]_vars

\* What a finished run r with the arguments r.argv has done to the files,
\* when result is the text it makes of its input: without arguments
\* nothing; else it has read the input file only, written the result to the
\* output file, which is the input file if no other is named, and left
\* every other file as it was.
FilesAfter(r, result) ==
    IF Len(r.argv) = 0
    THEN r.files = r.files0 /\ r.opened_r = {} /\ r.opened_w = {}
    ELSE LET out == IF Len(r.argv) > 1 THEN r.argv[2] ELSE r.argv[1]
         IN  /\ r.opened_r = {r.argv[1]}
             /\ r.opened_w = {out}
             /\ r.files[out] = result
             /\ \A p \in MarkdownPaths \ {out} : r.files[p] = r.files0[p]

\* The same for add_newlines_before_lists, which without arguments prints
\* its usage and exits with status 1.
AnmFilesAfter ==
    anm # Off /\ anm.pc = "done" =>
        /\ Len(anm.argv) = 0 => anm.status = 1 /\ anm.printed = <<"Usage">>
        /\ FilesAfter(anm, IF Len(anm.argv) = 0 THEN <<>>
                           ELSE add_newlines_before_lists(anm.files0[anm.argv[1]]))

\* A run that has not ended normally has written nothing.
NothingWrittenBefore(r) ==
    r # Off /\ r.pc # "done" => r.files = r.files0 /\ r.opened_w = {}

\* C17 as stated: for every finished run of one of the three scripts, with
\* an output path the input file is only read and the result is written to
\* the output path; without one the result overwrites the input file;
\* generate_diagrams without arguments touches no Markdown file, and
\* add_newlines_before_lists without arguments prints its usage and exits
\* with status 1 without reading or writing a file.
C17_FilesByArguments ==
    /\ AnmFilesAfter
    /\ gd # Off /\ gd.pc = "done" =>
          FilesAfter(gd, IF Len(gd.argv) = 0 THEN <<>>
                         ELSE ReplaceResult(gd.script, gd.files0[gd.argv[1]]))

\* C17 as amended: the same, for the runs of generate_diagrams in which the
\* dependency check passes; and a run that does not end normally (the input
\* file is missing) writes nothing.
C17_FilesByArgumentsWithGraphviz ==
    /\ AnmFilesAfter
    /\ gd # Off /\ gd.pc = "done" /\ gd.graphviz /\ gd.dot =>
          FilesAfter(gd, IF Len(gd.argv) = 0 THEN <<>>
                         ELSE ReplaceResult(gd.script, gd.files0[gd.argv[1]]))
    /\ NothingWrittenBefore(gd)
    /\ NothingWrittenBefore(anm)

\* A run of generate_diagrams with both paths has written the result to the
\* output file and left the input file as it was.
C17_Witness ==
    /\ gd # Off
    /\ gd.pc = "done"
    /\ gd.argv = <<"input.md", "output.md">>
    /\ gd.files["input.md"] = gd.files0["input.md"]
    /\ gd.files["output.md"] # gd.files0["output.md"]
    /\ gd.files["output.md"] # gd.files["input.md"]

(***************************************************************************)
(* The diagram scripts of How-X-works/build/diagrams                       *)
(***************************************************************************)

\* The most scripts run one after the other.
MaxRuns == 2

\* The scripts of the directory, by base name.
DiagramScripts ==
    {"abstract_factory_pattern", "actor_model_pattern",
     "adapter_pattern", "async_iterator_pattern",
     "bridge_pattern", "builder_pattern",
     "chain_of_responsibility_pattern", "command_pattern",
     "composite_pattern", "constructor_pattern",
     "cqrs_pattern", "currying_partial_application",
     "decorator_pattern", "dependency_injection_pattern",
     "event_sourcing_pattern", "facade_pattern",
     "factory_pattern", "flux_pattern",
     "flyweight_pattern", "functional_composition",
     "interpreter_pattern", "iterator_pattern",
     "mediator_pattern", "memento_pattern",
     "micro_frontend_pattern", "mixin_pattern",
     "module_pattern", "mutation_observer_pattern",
     "mvc_pattern", "mvp_pattern",
     "mvvm_pattern", "null_object_pattern",
     "object_pool_pattern", "observer_pattern",
     "observer_reactive_streams_pattern", "pipeline_pattern",
     "promise_pattern", "prototype_pattern",
     "proxy_pattern", "pubsub_pattern",
     "reactor_pattern", "redux_pattern",
     "revealing_module_pattern", "scheduler_pattern",
     "service_locator_pattern", "signal_pattern",
     "singleton_pattern", "state_pattern",
     "strategy_pattern", "template_method_pattern",
     "virtual_dom_diff_patch_pattern", "visitor_pattern"}

\* The argument of the plt.savefig call of each script.
SavefigPaths ==
    [s \in DiagramScripts |->
    CASE s = "abstract_factory_pattern" ->
            "docs/images/abstract_factory_pattern.png"
      [] s = "actor_model_pattern" ->
            "docs/images/actor_model_pattern.png"
      [] s = "adapter_pattern" ->
            "docs/images/adapter_pattern.png"
      [] s = "async_iterator_pattern" ->
            "docs/images/async_iterator_pattern.png"
      [] s = "bridge_pattern" ->
            "docs/images/bridge_pattern.png"
      [] s = "builder_pattern" ->
            "docs/images/builder_pattern.png"
      [] s = "chain_of_responsibility_pattern" ->
            "docs/images/chain_of_responsibility_pattern.png"
      [] s = "command_pattern" ->
            "docs/images/command_pattern.png"
      [] s = "composite_pattern" ->
            "docs/images/composite_pattern.png"
      [] s = "constructor_pattern" ->
            "docs/images/constructor_pattern.png"
      [] s = "cqrs_pattern" ->
            "docs/images/cqrs_pattern.png"
      [] s = "currying_partial_application" ->
            "docs/images/currying_partial_application.png"
      [] s = "decorator_pattern" ->
            "docs/images/decorator_pattern.png"
      [] s = "dependency_injection_pattern" ->
            "docs/images/dependency_injection_pattern.png"
      [] s = "event_sourcing_pattern" ->
            "docs/images/event_sourcing_pattern.png"
      [] s = "facade_pattern" ->
            "docs/images/facade_pattern.png"
      [] s = "factory_pattern" ->
            "docs/images/factory_pattern.png"
      [] s = "flux_pattern" ->
            "docs/images/flux_pattern.png"
      [] s = "flyweight_pattern" ->
            "docs/images/flyweight_pattern.png"
      [] s = "functional_composition" ->
            "docs/images/functional_composition.png"
      [] s = "interpreter_pattern" ->
            "docs/images/interpreter_pattern.png"
      [] s = "iterator_pattern" ->
            "docs/images/iterator_pattern.png"
      [] s = "mediator_pattern" ->
            "docs/images/mediator_pattern.png"
      [] s = "memento_pattern" ->
            "docs/images/memento_pattern.png"
      [] s = "micro_frontend_pattern" ->
            "docs/images/micro_frontend_pattern.png"
      [] s = "mixin_pattern" ->
            "docs/images/mixin_pattern.png"
      [] s = "module_pattern" ->
            "docs/images/module_pattern.png"
      [] s = "mutation_observer_pattern" ->
            "docs/images/mutation_observer_pattern.png"
      [] s = "mvc_pattern" ->
            "docs/images/mvc_pattern.png"
      [] s = "mvp_pattern" ->
            "docs/images/mvp_pattern.png"
      [] s = "mvvm_pattern" ->
            "docs/images/mvvm_pattern.png"
      [] s = "null_object_pattern" ->
            "docs/images/null_object_pattern.png"
      [] s = "object_pool_pattern" ->
            "docs/images/object_pool_pattern.png"
      [] s = "observer_pattern" ->
            "docs/images/observer_pattern.png"
      [] s = "observer_reactive_streams_pattern" ->
            "docs/images/observer_reactive_streams_pattern.png"
      [] s = "pipeline_pattern" ->
            "docs/images/pipeline_pattern.png"
      [] s = "promise_pattern" ->
            "docs/images/promise_pattern.png"
      [] s = "prototype_pattern" ->
            "docs/images/prototype_pattern.png"
      [] s = "proxy_pattern" ->
            "docs/images/proxy_pattern.png"
      [] s = "pubsub_pattern" ->
            "docs/images/pubsub_pattern.png"
      [] s = "reactor_pattern" ->
            "docs/images/reactor_pattern.png"
      [] s = "redux_pattern" ->
            "docs/images/redux_pattern.png"
      [] s = "revealing_module_pattern" ->
            "docs/images/revealing_module_pattern.png"
      [] s = "scheduler_pattern" ->
            "docs/images/scheduler_pattern.png"
      [] s = "service_locator_pattern" ->
            "docs/images/service_locator_pattern.png"
      [] s = "signal_pattern" ->
            "docs/images/signal_pattern.png"
      [] s = "singleton_pattern" ->
            "docs/images/singleton_pattern.png"
      [] s = "state_pattern" ->
            "docs/images/state_pattern.png"
      [] s = "strategy_pattern" ->
            "docs/images/strategy_pattern.png"
      [] s = "template_method_pattern" ->
            "docs/images/template_method_pattern.png"
      [] s = "virtual_dom_diff_patch_pattern" ->
            "docs/images/virtual_dom_diff_patch_pattern.png"
      [] s = "visitor_pattern" ->
            "docs/images/visitor_pattern.png"]

\* A mutant of savefig_path: every script saves to the same path.
savefig_path_shared(script) == "docs/images/diagram.png"

savefig_path(script) == SavefigPaths[script]

\* The files of docs/images as pairs of a path and the script whose figure
\* the file holds, after savefig of the script.
Savefig(files, script) ==
    {f \in files : f[1] # savefig_path(script)}
        \cup {<<savefig_path(script), script>>}

RECURSIVE ScriptSets(_)
\* The sets of at most n scripts.
ScriptSets(n) ==
    IF n = 0 THEN {{}}
    ELSE ScriptSets(n - 1)
             \cup {S \cup {s} : S \in ScriptSets(n - 1), s \in DiagramScripts}

InitDia ==
    /\ dia \in {[pc |-> "idle", script |-> "", todo |-> S, done |-> <<>>,
                 files |-> {}, printed |-> <<>>] :
                S \in ScriptSets(MaxRuns) \ {{}}}
    /\ OthersOff_dia

\* One of the scripts is run: the figure is built.
DiaDraw ==
    /\ dia.pc = "idle"
    /\ \E s \in dia.todo :
          dia' = [dia EXCEPT !.pc = "drawn", !.script = s, !.todo = @ \ {s}]
    /\ UNCHANGED Others_dia

\* plt.savefig(...)
DiaSavefig ==
    /\ dia.pc = "drawn"
    /\ dia' = [dia EXCEPT !.pc = "saved",
                          !.files = Savefig(@, dia.script)]
    /\ UNCHANGED Others_dia

\* print(...), the last statement
DiaPrint ==
    /\ dia.pc = "saved"
    /\ dia' = [dia EXCEPT !.pc = "idle",
                          !.script = "",
                          !.done = Append(@, dia.script),
                          !.printed = Append(@, dia.script)]
    /\ UNCHANGED Others_dia

NextDia == DiaDraw \/ DiaSavefig \/ DiaPrint

SpecDia == InitDia /\ [][NextDia]_vars

\* The scripts whose savefig call has returned.
SavedScripts ==
    {dia.done[k] : k \in 1..Len(dia.done)}
        \cup (IF dia.pc = "saved" THEN {dia.script} ELSE {})

\* Every script saves to docs/images/<script base name>.png.
PathsByName ==
    \A s \in DiagramScripts :
        savefig_path(s) = "docs/images/" \o s \o ".png"

\* No two scripts save to the same path.
PathsDiffer ==
    \A s, t \in DiagramScripts :
        s # t => savefig_path(s) # savefig_path(t)

\* C16: every script saves to docs/images/<script base name>.png, no two
\* scripts to the same path; a script that has run has saved one file and
\* then printed; and the files there are after some scripts have run are
\* one file per script, each at the path of its script with the figure of
\* its script, whatever the order the scripts ran in.
C16_OnePngPerScript ==
    /\ PathsByName
    /\ PathsDiffer
    /\ dia.files = {<<savefig_path(s), s>> : s \in SavedScripts}
    /\ Cardinality(dia.files) = Cardinality(SavedScripts)
    /\ dia.printed = dia.done
    /\ \A k \in 1..Len(dia.printed) :
          <<savefig_path(dia.printed[k]), dia.printed[k]>> \in dia.files

\* Two scripts have run, the one that is later in the directory first.
C16_Witness ==
    /\ dia.pc = "idle"
    /\ dia.todo = {}
    /\ dia.done = <<"flux_pattern", "factory_pattern">>
    /\ Cardinality(dia.files) = 2

====
